---- MODULE Spec2Model ----
(***************************************************************************)
(* Simulation core of Emoji-RTS (js/main.js, js/game-state.js,             *)
(* js/game-data.js): entity registry, unit state machines, combat,         *)
(* harvesting, training, construction, the rule-based AI and the game loop.*)
(*                                                                         *)
(* JavaScript objects are modelled as heap cells: unitObj, bldgObj and     *)
(* resObj hold every object ever created (an object removed from its array *)
(* can still be referenced by a closure or another object), and the arrays *)
(* units, buildings, constructions and resources hold references in array  *)
(* order.  Geometry (positions, ranges, distances) is an input of each     *)
(* tick: the set of units that reach their destination or are within       *)
(* range, and the node the distance comparison prefers.                    *)
(***************************************************************************)
EXTENDS Integers, Sequences, FiniteSets, TLC

\* ---------------------------------------------------------------- bounds
\* Stat tables of js/game-data.js are static configuration; the model runs
\* the code on a reduced table (small hit points, times and damages).
OpeningTime == 6
OpeningInputs == 3
EconomyTime == 3
EconomyInputs == 1
SkirmishTime == 3
SkirmishInputs == 1
MaxGap == 3
MaxDelta == 2
MaxUnits == 14
WorkerHp == 3
SoldierHp == 2
BaseHp == 2
SoldierDamage == 2
SoldierAttackSpeed == 2
TrainTime == 3
BuildTime == 3
MineCharge == 2
AiInterval == 2
NumTrees == 2
NumMines == 1

\* ------------------------------------------------------ program constants
STARTING_FOOD_CAP == 4
INITIAL_WOOD == 350
INITIAL_COAL == 250
DefaultDelta == 1

P1 == "human"
P2 == "zombie"
Factions == {P1, P2}
Other(f) == IF f = P1 THEN P2 ELSE P1

NoUnit == 0
NoRes == 0
NoBldg == 0
NoElem == [k |-> "none", r |-> 0]
NoId == [p |-> "none", n |-> 0]
UnitElem(u) == [k |-> "unit", r |-> u]
BldgElem(b) == [k |-> "bldg", r |-> b]
ResElem(r) == [k |-> "res", r |-> r]

\* ------------------------------------------------------------ stat tables
UnitTypes == {"worker", "soldier", "archer"}
BuildingTypes == {"base", "farm", "barracks", "archer_trainer", "guard_tower"}

UnitCost(t) ==
  CASE t = "worker" -> [wood |-> 5, coal |-> 2]
    [] t = "soldier" -> [wood |-> 10, coal |-> 5]
    [] OTHER -> [wood |-> 12, coal |-> 8]
FoodCost(t) == IF t = "worker" THEN 1 ELSE 2
UnitHp(t) == IF t = "worker" THEN WorkerHp ELSE SoldierHp
UnitTrainTime(t) == TrainTime
AttackDamage(t) == IF t = "worker" THEN 0 ELSE SoldierDamage
AttackRange(t) == IF t = "worker" THEN 0 ELSE 1
AttackSpeed(t) == SoldierAttackSpeed
CanBuild(t) == t = "worker"

BldgCost(t) ==
  CASE t = "base" -> [wood |-> 0, coal |-> 0]
    [] t = "farm" -> [wood |-> 7, coal |-> 0]
    [] t = "barracks" -> [wood |-> 7, coal |-> 5]
    [] t = "archer_trainer" -> [wood |-> 15, coal |-> 10]
    [] OTHER -> [wood |-> 20, coal |-> 15]
\* hit points of constructible buildings are kept a multiple of 10*buildTime
\* so that the site's start value (hp * 0.1) and the per-tick gain
\* (maxHp / buildTime * deltaTime) stay whole numbers.
BldgBuildTime(t) == IF t = "base" THEN 1 ELSE BuildTime
BldgHp(t) == IF t = "base" THEN BaseHp ELSE 10 * BuildTime
ProvidesFood(t) == IF t \in {"base", "farm"} THEN 4 ELSE 0
Trains(t) ==
  CASE t = "base" -> "worker"
    [] t = "barracks" -> "soldier"
    [] t = "archer_trainer" -> "archer"
    [] OTHER -> "none"
TowerDamage(t) == IF t = "guard_tower" THEN SoldierDamage ELSE 0
TowerSpeed(t) == IF t = "guard_tower" THEN SoldierAttackSpeed ELSE 0

\* --------------------------------------------------------------- helpers
Min(a, b) == IF a < b THEN a ELSE b
Max(a, b) == IF a > b THEN a ELSE b

\* Array.prototype.findIndex: the first index whose entry passes, 0 if none
FindIndex(seq, Test(_)) ==
  LET I == {i \in 1..Len(seq) : Test(seq[i])}
  IN IF I = {} THEN 0 ELSE CHOOSE i \in I : \A j \in I : i <= j

\* Array.prototype.find on an array of references: the entry, 0 if none
Find(seq, Test(_)) ==
  LET i == FindIndex(seq, Test) IN IF i = 0 THEN 0 ELSE seq[i]

\* Array.prototype.splice(i, 1)
Splice(seq, i) == SubSeq(seq, 1, i - 1) \o SubSeq(seq, i + 1, Len(seq))

\* Array.prototype.reduce with a sum
SumSeq(seq, F(_)) ==
  LET f[i \in 0..Len(seq)] == IF i = 0 THEN 0 ELSE f[i - 1] + F(seq[i])
  IN f[Len(seq)]

Range(seq) == {seq[i] : i \in 1..Len(seq)}

\* const x = e; ...: the value of e, named once and used in the rest
Bind(x, F(_)) == F(x)

\* ------------------------------------------------------------------ state
VARIABLES
  units, buildings, constructions, resources,   \* the entity arrays
  unitObj, bldgObj, resObj,                     \* the objects they refer to
  p1Wood, p1Coal, p2Wood, p2Coal,
  p1CurrentFood, p1FoodCapacity, p2CurrentFood, p2FoodCapacity,
  gameInitialized, gameOver, gameMode, currentGameState,
  selectedUnit, selectedBuilding,
  playerBaseData, opponentBaseData,
  unitIdCounter, buildingIdCounter, constructionIdCounter,
  factionAiUpdateCounters, aiGlobalUpdateCounter,
  lastTimestamp,
  rafScheduled,     \* a requestAnimationFrame(gameLoop) callback is pending
  placingBuildingType, placementValid,
  depleting,        \* mines whose 500 ms removal timer is pending
  winner,           \* what showGameOver displayed
  credited,         \* history: deposits credited, per faction and kind
  harvested,        \* history: completed harvests, per faction and kind
  taken,            \* history: completed harvests, per resource node
  inputs,           \* the number of player inputs the exploration still admits
  horizon           \* the time at which the exploration stops

vars == <<units, buildings, constructions, resources, unitObj, bldgObj,
          resObj, p1Wood, p1Coal, p2Wood, p2Coal, p1CurrentFood,
          p1FoodCapacity, p2CurrentFood, p2FoodCapacity, gameInitialized,
          gameOver, gameMode, currentGameState, selectedUnit,
          selectedBuilding, playerBaseData, opponentBaseData, unitIdCounter,
          buildingIdCounter, constructionIdCounter, factionAiUpdateCounters,
          aiGlobalUpdateCounter, lastTimestamp, rafScheduled,
          placingBuildingType, placementValid, depleting, winner, credited, harvested, taken,
          inputs, horizon>>

\* the program state as one value, for the operators that model functions
St ==
  [units |-> units, buildings |-> buildings, constructions |-> constructions,
   resources |-> resources, unitObj |-> unitObj, bldgObj |-> bldgObj,
   resObj |-> resObj, p1Wood |-> p1Wood, p1Coal |-> p1Coal,
   p2Wood |-> p2Wood, p2Coal |-> p2Coal, p1CurrentFood |-> p1CurrentFood,
   p1FoodCapacity |-> p1FoodCapacity, p2CurrentFood |-> p2CurrentFood,
   p2FoodCapacity |-> p2FoodCapacity, gameInitialized |-> gameInitialized,
   gameOver |-> gameOver, gameMode |-> gameMode,
   currentGameState |-> currentGameState, selectedUnit |-> selectedUnit,
   selectedBuilding |-> selectedBuilding, playerBaseData |-> playerBaseData,
   opponentBaseData |-> opponentBaseData, unitIdCounter |-> unitIdCounter,
   buildingIdCounter |-> buildingIdCounter,
   constructionIdCounter |-> constructionIdCounter,
   factionAiUpdateCounters |-> factionAiUpdateCounters,
   aiGlobalUpdateCounter |-> aiGlobalUpdateCounter,
   lastTimestamp |-> lastTimestamp, rafScheduled |-> rafScheduled,
   placingBuildingType |-> placingBuildingType,
   placementValid |-> placementValid, depleting |-> depleting,
   winner |-> winner, credited |-> credited, harvested |-> harvested,
   taken |-> taken]

Install(s) ==
  /\ units' = s.units /\ buildings' = s.buildings
  /\ constructions' = s.constructions /\ resources' = s.resources
  /\ unitObj' = s.unitObj /\ bldgObj' = s.bldgObj /\ resObj' = s.resObj
  /\ p1Wood' = s.p1Wood /\ p1Coal' = s.p1Coal
  /\ p2Wood' = s.p2Wood /\ p2Coal' = s.p2Coal
  /\ p1CurrentFood' = s.p1CurrentFood /\ p1FoodCapacity' = s.p1FoodCapacity
  /\ p2CurrentFood' = s.p2CurrentFood /\ p2FoodCapacity' = s.p2FoodCapacity
  /\ gameInitialized' = s.gameInitialized /\ gameOver' = s.gameOver
  /\ gameMode' = s.gameMode /\ currentGameState' = s.currentGameState
  /\ selectedUnit' = s.selectedUnit /\ selectedBuilding' = s.selectedBuilding
  /\ playerBaseData' = s.playerBaseData
  /\ opponentBaseData' = s.opponentBaseData
  /\ unitIdCounter' = s.unitIdCounter
  /\ buildingIdCounter' = s.buildingIdCounter
  /\ constructionIdCounter' = s.constructionIdCounter
  /\ factionAiUpdateCounters' = s.factionAiUpdateCounters
  /\ aiGlobalUpdateCounter' = s.aiGlobalUpdateCounter
  /\ lastTimestamp' = s.lastTimestamp /\ rafScheduled' = s.rafScheduled
  /\ placingBuildingType' = s.placingBuildingType
  /\ placementValid' = s.placementValid /\ depleting' = s.depleting
  /\ winner' = s.winner /\ credited' = s.credited
  /\ harvested' = s.harvested /\ taken' = s.taken

\* playerFactionKey and p1FactionKey are both set to the first faction
playerFactionKey == P1
p1FactionKey == P1
p2FactionKey == P2

\* the base a unit of faction f returns to
BaseOf(s, f) == IF f = playerFactionKey THEN s.playerBaseData
                ELSE s.opponentBaseData
IsAIControlled(s, f) == f # playerFactionKey \/ s.gameMode = "ai_vs_ai"

\* ---------------------------------------------------------------- economy
calculateCurrentFood(s, f) ==
  SumSeq(s.units, LAMBDA u : IF s.unitObj[u].faction = f
                             THEN FoodCost(s.unitObj[u].unitType) ELSE 0)

calculateFoodCapacity(s, f) ==
  Max(STARTING_FOOD_CAP,
      SumSeq(s.buildings,
             LAMBDA b : IF /\ s.bldgObj[b].faction = f
                           /\ ~s.bldgObj[b].isConstructing
                           /\ s.bldgObj[b].hp > 0
                        THEN ProvidesFood(s.bldgObj[b].buildingType)
                        ELSE 0))

updateResourceDisplay(s) ==
  [s EXCEPT !.p1CurrentFood = calculateCurrentFood(s, p1FactionKey),
            !.p1FoodCapacity = calculateFoodCapacity(s, p1FactionKey),
            !.p2CurrentFood = calculateCurrentFood(s, p2FactionKey),
            !.p2FoodCapacity = calculateFoodCapacity(s, p2FactionKey)]

\* ------------------------------------------------------------ unit states
setUnitState(s, u, newState) ==
  IF u = NoUnit \/ s.unitObj[u].state = newState THEN s
  ELSE
    LET unit == s.unitObj[u]
        release == /\ newState \notin {"building", "moving_to_build"}
                   /\ unit.constructionId # NoId
        cons == Find(s.constructions,
                     LAMBDA c : s.bldgObj[c].id = unit.constructionId)
        bo == IF release /\ cons # NoBldg /\ s.bldgObj[cons].assignedWorker = u
              THEN [s.bldgObj EXCEPT ![cons].assignedWorker = NoUnit]
              ELSE s.bldgObj
        t1 == [unit EXCEPT
                !.harvestTimer = IF unit.state = "harvesting" THEN NoRes ELSE @,
                !.lastAttackTime = IF unit.state = "attacking" THEN 0 ELSE @,
                !.constructionId = IF release THEN NoId ELSE @,
                !.state = newState]
        t2 == CASE newState = "idle" ->
                     [t1 EXCEPT !.hasTarget = FALSE, !.targetElement = NoElem,
                                !.lastHarvestedNodeId = NoRes,
                                !.constructionId = NoId, !.ai_tasked = FALSE]
                [] newState = "attacking" ->
                     [t1 EXCEPT !.hasTarget = FALSE, !.lastAttackTime = 0]
                [] newState = "retreating" ->
                     [t1 EXCEPT !.targetElement = NoElem,
                                !.resourceType = "none"]
                [] OTHER -> t1
    IN [s EXCEPT !.unitObj = [@ EXCEPT ![u] = t2], !.bldgObj = bo]

\* a command record; fields the caller leaves out are undefined in the code
Command(state, hasTarget, targetElement, constructionId, preferredType) ==
  [state |-> state, hasTarget |-> hasTarget, targetElement |-> targetElement,
   constructionId |-> constructionId, preferredType |-> preferredType]

issueCommand(s, u, command, triggeredByAI) ==
  IF u = NoUnit \/ s.unitObj[u].hp <= 0 THEN s
  ELSE
    LET unit == s.unitObj[u]
        oldCons == Find(s.constructions,
                        LAMBDA c : s.bldgObj[c].id = unit.constructionId)
        bo == IF /\ unit.state = "building" /\ unit.constructionId # NoId
                 /\ unit.constructionId # command.constructionId
                 /\ oldCons # NoBldg /\ s.bldgObj[oldCons].assignedWorker = u
              THEN [s.bldgObj EXCEPT ![oldCons].assignedWorker = NoUnit]
              ELSE s.bldgObj
        t1 == [unit EXCEPT
                !.harvestTimer = NoRes,
                !.lastHarvestedNodeId =
                   IF command.state # "returning" THEN NoRes ELSE @,
                !.preferredResourceType =
                   IF /\ command.state = "moving_to_resource"
                      /\ command.preferredType # "none"
                      /\ unit.faction = playerFactionKey
                      /\ s.gameMode = "human_vs_ai"
                   THEN command.preferredType
                   ELSE IF command.state # "moving_to_resource" THEN "none"
                        ELSE @,
                !.constructionId = command.constructionId,
                !.ai_tasked = triggeredByAI,
                !.targetElement = command.targetElement,
                !.hasTarget = command.hasTarget]
    IN Bind(setUnitState([s EXCEPT !.unitObj = [@ EXCEPT ![u] = t1],
                                   !.bldgObj = bo], u, command.state),
            LAMBDA s2 :
              IF command.state # "returning"
              THEN [s2 EXCEPT !.unitObj = [@ EXCEPT ![u].resourceType = "none"]]
              ELSE s2)

\* ------------------------------------------------- selection and placement
\* for comparison: a cancellation that gives nothing back
cancelWithoutRefund(s) ==
  [s EXCEPT !.placingBuildingType = "none", !.placementValid = FALSE]

cancelPlacement(s) ==
  IF s.gameMode = "ai_vs_ai" \/ s.placingBuildingType = "none" THEN s
  ELSE updateResourceDisplay(
         [s EXCEPT !.p1Wood = @ + BldgCost(s.placingBuildingType).wood,
                   !.p1Coal = @ + BldgCost(s.placingBuildingType).coal,
                   !.placingBuildingType = "none",
                   !.placementValid = FALSE])

deselectAll(s) ==
  IF s.gameMode = "ai_vs_ai" THEN s
  ELSE cancelPlacement([s EXCEPT !.selectedUnit = NoUnit,
                                 !.selectedBuilding = NoBldg])

\* ---------------------------------------------------------------- game over
showGameOver(s, winnerFactionKey) ==
  [s EXCEPT !.gameInitialized = FALSE, !.gameOver = TRUE,
            !.winner = winnerFactionKey]

HasBase(s, f) ==
  \E i \in 1..Len(s.buildings) :
     LET b == s.bldgObj[s.buildings[i]]
     IN b.isBase /\ b.faction = f /\ b.hp > 0

\* for comparison: a verdict that names the faction that lost its base
WinnerOfLoser(p1HasBase, p2HasBase) ==
  IF ~p2HasBase /\ p1HasBase THEN p2FactionKey
  ELSE IF ~p1HasBase /\ p2HasBase THEN p1FactionKey
  ELSE IF ~p1HasBase /\ ~p2HasBase THEN "Draw"
  ELSE "none"

\* the winner checkGameOver computes from the bases that stand
WinnerOf(p1HasBase, p2HasBase) ==
  IF ~p2HasBase /\ p1HasBase THEN p1FactionKey
  ELSE IF ~p1HasBase /\ p2HasBase THEN p2FactionKey
  ELSE IF ~p1HasBase /\ ~p2HasBase THEN "Draw"
  ELSE "none"

checkGameOver(s) ==
  IF s.gameOver THEN s
  ELSE LET w == IF s.gameInitialized
                THEN WinnerOf(HasBase(s, p1FactionKey),
                              HasBase(s, p2FactionKey))
                ELSE "none"
       IN IF w # "none" THEN showGameOver([s EXCEPT !.gameOver = TRUE], w)
          ELSE s

\* ------------------------------------------------------------------ combat
\* dealDamage, the forEach that reverts the attackers of a dead entity
RECURSIVE RevertFrom(_, _, _)
RevertFrom(s, elem, i) ==
  IF i > Len(s.units) THEN s
  ELSE LET a == s.units[i]
           hit == /\ s.unitObj[a].state \in {"attacking", "moving_to_attack"}
                  /\ s.unitObj[a].targetElement = elem
       IN RevertFrom(IF hit THEN setUnitState(s, a, "idle") ELSE s,
                     elem, i + 1)

revertAttackers(s, elem) == RevertFrom(s, elem, 1)

\* dealDamage, the automatic retreat of a damaged worker
autoRetreat(s, u) ==
  LET unit == s.unitObj[u]
  IN IF /\ s.gameMode = "human_vs_ai"
        /\ unit.faction = playerFactionKey
        /\ unit.unitType = "worker"
        /\ unit.hp > 0
        /\ 2 * unit.hp < unit.maxHp      \* hp / maxHp < 0.5
        /\ unit.state # "retreating"
        /\ s.playerBaseData # NoBldg
        /\ s.bldgObj[s.playerBaseData].hp > 0
     THEN issueCommand(s, u, Command("retreating", TRUE, NoElem, NoId, "none"),
                       FALSE)
     ELSE s

\* for comparison: a death that leaves the units array as it is
keepUnit(s, u) == s

\* dealDamage, the removal of a dead unit from the units array
removeUnit(s, u) ==
  LET i == FindIndex(s.units, LAMBDA x : x = u)
  IN IF i > 0 THEN [s EXCEPT !.units = Splice(@, i)] ELSE s

\* a worker that is building site id goes idle
releaseBuilder(s, worker, id) ==
  IF /\ worker # NoUnit
     /\ s.unitObj[worker].state = "building"
     /\ s.unitObj[worker].constructionId = id
  THEN setUnitState(s, worker, "idle") ELSE s

\* dealDamage, the removal of a dead building and of its construction record
removeBuilding(s, b) ==
  LET id == s.bldgObj[b].id
      bi == FindIndex(s.buildings, LAMBDA x : s.bldgObj[x].id = id)
      ci == FindIndex(s.constructions, LAMBDA x : s.bldgObj[x].id = id)
  IN IF bi = 0 THEN s
     ELSE Bind(IF ci = 0 THEN s
               ELSE [releaseBuilder(s,
                       s.bldgObj[s.constructions[ci]].assignedWorker, id)
                     EXCEPT !.constructions = Splice(@, ci)],
               LAMBDA s1 :
                 IF s.bldgObj[s.buildings[bi]].isBase
                 THEN checkGameOver([s1 EXCEPT !.buildings = Splice(@, bi)])
                 ELSE [s1 EXCEPT !.buildings = Splice(@, bi)])

\* for comparison: a death that leaves the hit points as the damage left them
killUnitUnclamped(s, u) ==
  [s EXCEPT !.units = SelectSeq(@, LAMBDA x : x # u)]

\* dealDamage, the death of a unit whose hit points are used up
killUnit(s, u) ==
  Bind([s EXCEPT !.unitObj = [@ EXCEPT ![u].hp = 0, ![u].conn = FALSE]],
       LAMBDA s2 :
         updateResourceDisplay(
           removeUnit(
             revertAttackers(IF s2.selectedUnit = u THEN deselectAll(s2)
                             ELSE s2, UnitElem(u)), u)))

dealDamageUnit(s, u, damage) ==
  IF s.unitObj[u].hp <= 0 THEN s
  ELSE Bind(autoRetreat(
              [s EXCEPT !.unitObj = [@ EXCEPT ![u].hp = @ - damage]], u),
            LAMBDA s1 : IF s1.unitObj[u].hp > 0 THEN s1 ELSE killUnit(s1, u))

\* dealDamage, the destruction of a building whose hit points are used up
killBuilding(s, b) ==
  Bind([s EXCEPT !.bldgObj = [@ EXCEPT ![b].hp = 0, ![b].conn = FALSE]],
       LAMBDA s2 :
         updateResourceDisplay(
           removeBuilding(
             revertAttackers(IF s2.selectedBuilding = b THEN deselectAll(s2)
                             ELSE s2, BldgElem(b)), b)))

dealDamageBldg(s, b, damage) ==
  IF s.bldgObj[b].hp <= 0 THEN s
  ELSE IF s.bldgObj[b].hp - damage > 0
  THEN [s EXCEPT !.bldgObj = [@ EXCEPT ![b].hp = @ - damage]]
  ELSE killBuilding(
         [s EXCEPT !.bldgObj = [@ EXCEPT ![b].hp = @ - damage]], b)

\* targetData is an object of either kind, referred to by its element
dealDamage(s, targetData, damage) ==
  IF targetData.k = "unit" THEN dealDamageUnit(s, targetData.r, damage)
  ELSE IF targetData.k = "bldg" THEN dealDamageBldg(s, targetData.r, damage)
  ELSE s

\* -------------------------------------------------------- entity creation
NewUnit(unitType, factionKey) ==
  [faction |-> factionKey, unitType |-> unitType, hp |-> UnitHp(unitType),
   maxHp |-> UnitHp(unitType), state |-> "idle", hasTarget |-> FALSE,
   targetElement |-> NoElem, resourceType |-> "none", harvestTimer |-> NoRes,
   lastHarvestedNodeId |-> NoRes, constructionId |-> NoId,
   ai_tasked |-> FALSE, lastAttackTime |-> 0,
   preferredResourceType |-> "none", conn |-> TRUE]

\* the unit created is the last entry of unitObj
createUnit(s, unitType, factionKey) ==
  IF unitType \notin UnitTypes THEN s
  ELSE [s EXCEPT !.unitObj = Append(@, NewUnit(unitType, factionKey)),
                 !.units = Append(@, Len(s.unitObj) + 1),
                 !.unitIdCounter = @ + 1]

NewBuilding(id, buildingType, factionKey, isBase, isConstructed) ==
  [id |-> id, buildingType |-> buildingType,
   isConstructing |-> ~isConstructed, isBase |-> isBase,
   faction |-> factionKey, hp |-> BldgHp(buildingType),
   maxHp |-> BldgHp(buildingType), isTraining |-> FALSE,
   trainingProgress |-> 0, trainingTotalTime |-> 0,
   trainingUnitType |-> "none", lastAttackTime |-> 0,
   hasElement |-> ~(buildingType = "farm" /\ isConstructed), conn |-> TRUE,
   assignedWorker |-> NoUnit, progress |-> 0, buildTime |-> 0]

\* the building created is the last entry of bldgObj
createBuilding(s, buildingType, factionKey, isBase, isConstructed) ==
  LET ref == Len(s.bldgObj) + 1
      s1 == [s EXCEPT
              !.bldgObj = Append(@, NewBuilding(
                            [p |-> "bldg", n |-> s.buildingIdCounter],
                            buildingType, factionKey, isBase, isConstructed)),
              !.buildings = Append(@, ref),
              !.buildingIdCounter = @ + 1]
  IN IF buildingType \notin BuildingTypes THEN s
     ELSE IF ~isBase THEN s1
     ELSE IF factionKey = playerFactionKey
          THEN [s1 EXCEPT !.playerBaseData = ref]
          ELSE [s1 EXCEPT !.opponentBaseData = ref]

\* --------------------------------------------------------------- harvesting
\* the order in which the distance comparison ranks the nodes, an input
NearOrders(s) ==
  LET n == Len(s.resObj)
  IN {[i \in 1..n |-> i], [i \in 1..n |-> n + 1 - i]}

findNearestResource(s, u, resourceClassType, near) ==
  LET unit == s.unitObj[u]
      targeted(r) ==
        \E i \in 1..Len(s.units) :
           LET o == s.unitObj[s.units[i]]
           IN /\ s.units[i] # u /\ o.faction = unit.faction
              /\ o.targetElement = ResElem(r)
              /\ o.state \in {"moving_to_resource", "harvesting"}
      ok(r) == /\ r \in Range(s.resources)
               /\ s.resObj[r].type = resourceClassType /\ s.resObj[r].conn
               /\ ~(resourceClassType = "mine" /\ s.resObj[r].health <= 0)
               /\ ~(resourceClassType = "mine" /\ targeted(r))
  IN Find(near, ok)

findAndTargetNearestResource(s, u, resourceClassType, specificNode, triggeredByAI, near) ==
  LET node == IF specificNode # NoRes THEN specificNode
              ELSE findNearestResource(s, u, resourceClassType, near)
  IN IF node # NoRes /\ s.resObj[node].conn
     THEN issueCommand(s, u, Command("moving_to_resource", TRUE, ResElem(node),
                                     NoId, resourceClassType), triggeredByAI)
     ELSE setUnitState(s, u, "idle")

ClassOf(nodeType) == IF nodeType = "tree" THEN "wood" ELSE "coal"

\* for comparison: a harvest that leaves the node as it is
leaveNode(s, r) == s

\* for comparison: a harvest that uses the node up and leaves it in place
useUpNode(s, r) == [s EXCEPT !.resObj = [@ EXCEPT ![r].health = 0]]

\* handleHarvestComplete, the node's side: what is harvested and what is
\* left of the node
harvestNode(s, r) ==
  IF s.resObj[r].type = "tree"
  THEN [s EXCEPT !.resObj = [@ EXCEPT ![r].health = 0, ![r].conn = FALSE],
                 !.resources = SelectSeq(@, LAMBDA x : x # r)]
  ELSE IF s.resObj[r].health > 0
       THEN [s EXCEPT !.resObj = [@ EXCEPT ![r].health = @ - 1],
                      !.depleting = IF s.resObj[r].health - 1 <= 0
                                    THEN @ \cup {r} ELSE @]
       ELSE s

\* handleHarvestComplete, the timeout that removes a depleted mine
removeMine(s, r) ==
  [s EXCEPT !.resObj = [@ EXCEPT ![r].conn = FALSE],
            !.resources = SelectSeq(@, LAMBDA x : x # r),
            !.depleting = @ \ {r}]

\* what handleHarvestComplete finds harvested at node r
harvestedType(s, r) ==
  IF s.resObj[r].type = "tree" THEN "wood"
  ELSE IF s.resObj[r].health > 0 THEN "coal" ELSE "none"

\* for comparison: a callback that looks at the node only
staleNode(s, u, r) == ~s.resObj[r].conn

\* handleHarvestComplete, the callback finds nothing left for it to complete
staleHarvest(s, u, r) ==
  s.unitObj[u].state # "harvesting" \/ ~s.resObj[r].conn

handleHarvestComplete(s, u, r, near) ==
  LET unit == s.unitObj[u]
  IN IF staleHarvest(s, u, r)
     THEN IF unit.state = "harvesting" THEN setUnitState(s, u, "idle") ELSE s
     ELSE
       LET got == harvestedType(s, r)
           s1 == harvestNode([s EXCEPT !.unitObj =
                                [@ EXCEPT ![u].harvestTimer = NoRes]], r)
       IN IF got # "none"
          THEN LET s2 == [s1 EXCEPT
                           !.unitObj = [@ EXCEPT ![u].resourceType = got,
                                           ![u].lastHarvestedNodeId = r],
                           !.harvested = [@ EXCEPT ![unit.faction][got] = @ + 1],
                           !.taken = [@ EXCEPT ![r] = @ + 1]]
                   targetBase == BaseOf(s2, unit.faction)
               IN IF targetBase # NoBldg /\ s2.bldgObj[targetBase].hp > 0
                  THEN issueCommand(s2, u, Command("returning", TRUE,
                                     BldgElem(targetBase), NoId, "none"), FALSE)
                  ELSE setUnitState(s2, u, "idle")
          ELSE LET nextPreferredType ==
                     IF unit.preferredResourceType # "none"
                     THEN unit.preferredResourceType
                     ELSE IF s.resObj[r].type = "tree" THEN "mine" ELSE "tree"
                   s2 == findAndTargetNearestResource(s1, u, nextPreferredType,
                           NoRes, IsAIControlled(s1, unit.faction), near)
               IN [s2 EXCEPT !.unitObj = [@ EXCEPT ![u].targetElement = NoElem]]

\* handleDepositResource, the credit of the carried unit to the stockpile
creditDeposit(s, factionKey, returnedType) ==
  IF returnedType = "none" THEN s
  ELSE updateResourceDisplay(
         [s EXCEPT
           !.p1Wood = IF factionKey = playerFactionKey
                         /\ returnedType = "wood" THEN @ + 1 ELSE @,
           !.p1Coal = IF factionKey = playerFactionKey
                         /\ returnedType = "coal" THEN @ + 1 ELSE @,
           !.p2Wood = IF factionKey # playerFactionKey
                         /\ returnedType = "wood" THEN @ + 1 ELSE @,
           !.p2Coal = IF factionKey # playerFactionKey
                         /\ returnedType = "coal" THEN @ + 1 ELSE @,
           !.credited = [@ EXCEPT ![factionKey][returnedType] = @ + 1]])

\* handleDepositResource, the choice of the node the worker goes to next
retarget(s2, u, preferred, returnedType, lastNodeId, near) ==
  LET searchType == IF preferred # "none" THEN preferred
                    ELSE IF returnedType = "wood" THEN "tree" ELSE "mine"
      same == IF searchType = "mine" /\ lastNodeId # NoRes
                 /\ lastNodeId \in Range(s2.resources)
                 /\ s2.resObj[lastNodeId].conn
                 /\ s2.resObj[lastNodeId].health > 0
              THEN lastNodeId ELSE NoRes
      n1 == IF same # NoRes THEN same
            ELSE findNearestResource(s2, u, searchType, near)
      n2 == IF n1 = NoRes /\ preferred # "none"
            THEN findNearestResource(s2, u,
                   IF searchType = "tree" THEN "mine" ELSE "tree", near)
            ELSE n1
  IN IF n2 # NoRes
     THEN findAndTargetNearestResource(s2, u, s2.resObj[n2].type, n2,
            IsAIControlled(s2, s2.unitObj[u].faction), near)
     ELSE setUnitState(s2, u, "idle")

handleDepositResource(s, u, near) ==
  LET unit == s.unitObj[u]
      targetBase == BaseOf(s, unit.faction)
  IN IF targetBase = NoBldg \/ s.bldgObj[targetBase].hp <= 0
     THEN setUnitState(s, u, "idle")
     ELSE retarget([creditDeposit(s, unit.faction, unit.resourceType)
                      EXCEPT !.unitObj = [@ EXCEPT ![u].resourceType = "none"]],
                   u, unit.preferredResourceType, unit.resourceType,
                   unit.lastHarvestedNodeId, near)

\* ------------------------------------------------------------- construction
\* assignWorkerToConstruction, the worker leaves the site it was assigned to
leaveOtherSite(s1, u, id) ==
  LET unit == s1.unitObj[u]
      otherCons == Find(s1.constructions,
                        LAMBDA x : s1.bldgObj[x].id = unit.constructionId)
  IN IF /\ unit.constructionId # NoId
        /\ unit.constructionId # id
        /\ otherCons # NoBldg
        /\ s1.bldgObj[otherCons].assignedWorker = u
     THEN [s1 EXCEPT !.bldgObj =
             [@ EXCEPT ![otherCons].assignedWorker = NoUnit]]
     ELSE s1

assignWorkerToConstruction(s, c, u, triggeredByAI) ==
  LET cons == s.bldgObj[c]
  IN IF cons.assignedWorker = u THEN s
     ELSE issueCommand(
            [leaveOtherSite(releaseBuilder(s, cons.assignedWorker, cons.id),
                            u, cons.id)
               EXCEPT !.bldgObj = [@ EXCEPT ![c].assignedWorker = u],
                      !.unitObj = [@ EXCEPT ![u].constructionId = cons.id]],
            u, Command("moving_to_build", TRUE, BldgElem(c), cons.id, "none"),
            triggeredByAI)

startWorkerBuilding(s, u, c) ==
  IF /\ s.unitObj[u].constructionId = s.bldgObj[c].id
     /\ s.bldgObj[c].assignedWorker = u
  THEN setUnitState(s, u, "building") ELSE s

NewSite(id, buildingType, forFaction) ==
  [NewBuilding(id, buildingType, forFaction, FALSE, FALSE) EXCEPT
     !.hp = BldgHp(buildingType) \div 10,
     !.buildTime = BldgBuildTime(buildingType)]

\* the site created is the last entry of bldgObj
createConstructionSite(s, buildingType, forFaction, byWorker) ==
  LET ref == Len(s.bldgObj) + 1
      s1 == [s EXCEPT
              !.constructionIdCounter = @ + 1,
              !.bldgObj = Append(@, NewSite(
                            [p |-> "cons", n |-> s.constructionIdCounter],
                            buildingType, forFaction)),
              !.constructions = Append(@, ref),
              !.buildings = Append(@, ref)]
  IN IF buildingType \notin BuildingTypes
     THEN [s EXCEPT !.constructionIdCounter = @ + 1]
     ELSE IF /\ byWorker # NoUnit
             /\ s.unitObj[byWorker].unitType = "worker"
             /\ s.unitObj[byWorker].faction = forFaction
             /\ CanBuild(s.unitObj[byWorker].unitType)
     THEN assignWorkerToConstruction(s1, ref, byWorker,
                                     IsAIControlled(s1, forFaction))
     ELSE s1

\* completeConstruction, the removal of the site from constructions
dropSite(s3, id) ==
  LET consIndex == FindIndex(s3.constructions,
                             LAMBDA x : s3.bldgObj[x].id = id)
  IN IF consIndex > 0
     THEN [s3 EXCEPT !.constructions = Splice(@, consIndex)]
     ELSE s3

\* for comparison: a completion that leaves the selection where it is
keepSelection(s, c, newBuilding) == s

\* completeConstruction, a selection of the site is moved to the building
redirectSelection(s, c, newBuilding) ==
  [s EXCEPT !.selectedBuilding = IF @ = c THEN newBuilding ELSE @]

\* for comparison: a table that flags guard towers as bases too
towerIsBase(buildingType) == buildingType \in {"base", "guard_tower"}

\* the isBase entry of the static table of building types
StaticIsBase(buildingType) == buildingType = "base"

completeConstruction(s, c) ==
  LET cons == s.bldgObj[c]
      buildingIndex == FindIndex(s.buildings,
                                 LAMBDA x : s.bldgObj[x].id = cons.id)
      newBuilding == Len(s.bldgObj) + 1
  IN IF buildingIndex = 0 THEN s
     ELSE updateResourceDisplay(
            dropSite(
              releaseBuilder(
                redirectSelection(
                  [createBuilding(
                     [s EXCEPT !.bldgObj = [@ EXCEPT ![c].conn = FALSE]],
                     cons.buildingType, cons.faction,
                     StaticIsBase(cons.buildingType), TRUE)
                   EXCEPT
                     !.bldgObj = [@ EXCEPT ![newBuilding].id = cons.id],
                     !.buildings = [@ EXCEPT ![buildingIndex] = newBuilding]],
                  c, newBuilding),
                cons.assignedWorker, cons.id),
              cons.id))

\* ----------------------------------------------------------------- training
completeAnyUnitTraining(s, b) ==
  LET bldg == s.bldgObj[b]
      unitTypeToSpawn == bldg.trainingUnitType
      factionKey == bldg.faction
  IN IF unitTypeToSpawn = "none" THEN s
     ELSE
       LET s1 == createUnit(s, unitTypeToSpawn, factionKey)
           newUnit == Len(s1.unitObj)
           s2 == IF factionKey = p2FactionKey
                    \/ (factionKey = p1FactionKey /\ s.gameMode = "ai_vs_ai")
                 THEN IF /\ unitTypeToSpawn \in {"soldier", "archer"}
                         /\ s1.opponentBaseData # NoBldg
                         /\ s1.bldgObj[s1.opponentBaseData].hp > 0
                      THEN issueCommand(s1, newUnit,
                             Command("moving_to_attack", TRUE,
                                     BldgElem(s1.opponentBaseData), NoId,
                                     "none"), TRUE)
                      ELSE setUnitState(s1, newUnit, "idle")
                 ELSE s1
       IN updateResourceDisplay(
            [s2 EXCEPT !.bldgObj = [@ EXCEPT ![b].isTraining = FALSE,
                                             ![b].trainingUnitType = "none",
                                             ![b].trainingProgress = 0,
                                             ![b].trainingTotalTime = 0]])

\* for comparison: a training that costs nothing
payNothing(s, factionKey, unitType) == s

\* for comparison: a food test that always passes
alwaysFed(s, factionKey, unitType) == TRUE

\* trainUnit, the deduction of the unit's cost from the faction's stockpile
payUnitCost(s, factionKey, unitType) ==
  IF factionKey = playerFactionKey
  THEN [s EXCEPT !.p1Wood = @ - UnitCost(unitType).wood,
                 !.p1Coal = @ - UnitCost(unitType).coal]
  ELSE [s EXCEPT !.p2Wood = @ - UnitCost(unitType).wood,
                 !.p2Coal = @ - UnitCost(unitType).coal]

\* trainUnit, the food test on the cached food values
hasFoodFor(s, factionKey, unitType) ==
  LET currentFactionFood == IF factionKey = playerFactionKey
                            THEN s.p1CurrentFood ELSE s.p2CurrentFood
      currentFactionFoodCap == IF factionKey = playerFactionKey
                               THEN s.p1FoodCapacity ELSE s.p2FoodCapacity
  IN ~(currentFactionFood + FoodCost(unitType) > currentFactionFoodCap)

trainUnit(s, unitType, b) ==
  LET bldg == s.bldgObj[b]
      factionKey == bldg.faction
      currentResWood == IF factionKey = playerFactionKey THEN s.p1Wood
                        ELSE s.p2Wood
      currentResCoal == IF factionKey = playerFactionKey THEN s.p1Coal
                        ELSE s.p2Coal
  IN IF \/ unitType \notin UnitTypes \/ bldg.isTraining
        \/ Trains(bldg.buildingType) # unitType
     THEN s
     ELSE IF \/ currentResWood < UnitCost(unitType).wood
             \/ currentResCoal < UnitCost(unitType).coal
     THEN s
     ELSE IF ~hasFoodFor(s, factionKey, unitType) THEN s
     ELSE
       LET s1 == updateResourceDisplay(payUnitCost(s, factionKey, unitType))
       IN [s1 EXCEPT !.bldgObj =
             [@ EXCEPT ![b].isTraining = TRUE,
                       ![b].trainingUnitType = unitType,
                       ![b].trainingProgress = 0,
                       ![b].trainingTotalTime = UnitTrainTime(unitType)]]

\* ----------------------------------------------------------------------- AI
AI_TARGET_WORKERS == 5
AI_TARGET_SOLDIERS == 7
AI_TARGET_ARCHERS == 4
AI_TARGET_GUARD_TOWERS == 2

\* for comparison: a test that looks at the food only
aiFedGeneric(itemType, isUnit, woodRes, coalRes, foodRes, foodCap) ==
  ~(isUnit /\ foodRes + FoodCost(itemType) > foodCap)

aiCanAffordGeneric(itemType, isUnit, woodRes, coalRes, foodRes, foodCap) ==
  LET cost == IF isUnit THEN UnitCost(itemType) ELSE BldgCost(itemType)
  IN IF woodRes < cost.wood \/ coalRes < cost.coal THEN FALSE
     ELSE IF isUnit /\ foodRes + FoodCost(itemType) > foodCap THEN FALSE
     ELSE TRUE

aiStartConstructionGeneric(s, factionKey, type, assignedWorker) ==
  LET s1 == IF factionKey = p1FactionKey
            THEN [s EXCEPT !.p1Wood = @ - BldgCost(type).wood,
                           !.p1Coal = @ - BldgCost(type).coal]
            ELSE [s EXCEPT !.p2Wood = @ - BldgCost(type).wood,
                           !.p2Coal = @ - BldgCost(type).coal]
  IN createConstructionSite(s1, type, factionKey, assignedWorker)

\* free says whether one of the 50 random positions is free of overlaps
aiTryBuildGeneric(s, factionKey, factionBaseData, buildingType, builderUnit, free) ==
  IF factionBaseData = NoBldg \/ builderUnit = NoUnit
     \/ ~CanBuild(s.unitObj[builderUnit].unitType) \/ ~free
  THEN s
  ELSE aiStartConstructionGeneric(s, factionKey, buildingType, builderUnit)

\* the entries of an array that pass a test, in array order
Filter(seq, Test(_)) == SelectSeq(seq, Test)

RECURSIVE AttackAll(_, _, _, _)
AttackAll(s, list, i, enemyAIBase) ==
  IF i > Len(list) THEN s
  ELSE AttackAll(issueCommand(s, list[i],
                   Command("moving_to_attack", TRUE, BldgElem(enemyAIBase),
                           NoId, "none"), TRUE),
                 list, i + 1, enemyAIBase)

\* for comparison: a test that also takes a worker on its way back
returningBuilder(s, w) ==
  /\ s.unitObj[w].state \in {"idle", "returning"}
  /\ ~s.unitObj[w].ai_tasked
  /\ s.unitObj[w].constructionId = NoId

\* updateSingleAI, the test of availableBuilders
availableBuilder(s, w) ==
  /\ s.unitObj[w].state = "idle"
  /\ ~s.unitObj[w].ai_tasked
  /\ s.unitObj[w].constructionId = NoId

\* updateSingleAI, the constants the pass computes before it acts
aiView(s, f) ==
  LET isP1AI == f = p1FactionKey
      aiUnits == Filter(s.units, LAMBDA u : s.unitObj[u].faction = f
                                            /\ s.unitObj[u].hp > 0)
      aiWorkers == Filter(aiUnits, LAMBDA u : s.unitObj[u].unitType = "worker")
      Own(ty) == Filter(s.buildings,
                        LAMBDA b : /\ s.bldgObj[b].faction = f
                                   /\ s.bldgObj[b].buildingType = ty
                                   /\ ~s.bldgObj[b].isConstructing
                                   /\ s.bldgObj[b].hp > 0)
  IN [currentAIWood |-> IF isP1AI THEN s.p1Wood ELSE s.p2Wood,
      currentAICoal |-> IF isP1AI THEN s.p1Coal ELSE s.p2Coal,
      currentAIFood |-> calculateCurrentFood(s, f),
      currentAIFoodCap |-> calculateFoodCapacity(s, f),
      currentAIBase |-> IF isP1AI THEN s.playerBaseData
                        ELSE s.opponentBaseData,
      enemyAIBase |-> IF isP1AI THEN s.opponentBaseData
                      ELSE s.playerBaseData,
      aiUnits |-> aiUnits,
      aiWorkers |-> aiWorkers,
      aiSoldiers |-> Filter(aiUnits,
                            LAMBDA u : s.unitObj[u].unitType = "soldier"),
      aiArchers |-> Filter(aiUnits,
                           LAMBDA u : s.unitObj[u].unitType = "archer"),
      aiOwnBases |-> Own("base"),
      aiOwnBarracks |-> Own("barracks"),
      aiOwnArcheryRanges |-> Own("archer_trainer"),
      aiOwnFarmsCount |-> Len(Own("farm")),
      aiOwnGuardTowersCount |-> Len(Own("guard_tower")),
      foodSum |-> SumSeq(aiUnits, LAMBDA u : FoodCost(s.unitObj[u].unitType)),
      isBuilding |-> {ty \in BuildingTypes :
                        \E i \in 1..Len(s.constructions) :
                           /\ s.bldgObj[s.constructions[i]].faction = f
                           /\ s.bldgObj[s.constructions[i]].buildingType = ty},
      availableBuilders |-> Filter(aiWorkers, LAMBDA w : availableBuilder(s, w))]

aiAfford(v, ty, isUnit) ==
  aiCanAffordGeneric(ty, isUnit, v.currentAIWood, v.currentAICoal,
                     v.currentAIFood, v.currentAIFoodCap)

\* updateSingleAI, the building the ladder of conditions picks, "none" if
\* no rung applies
aiPick(v) ==
  LET needsFood == (v.currentAIFoodCap - v.currentAIFood)
                     < (IF Len(v.aiWorkers) > 1 THEN 3 ELSE 2)
  IN IF /\ needsFood /\ "farm" \notin v.isBuilding
        /\ v.aiOwnFarmsCount < (v.foodSum + 5 + STARTING_FOOD_CAP - 1)
                                  \div STARTING_FOOD_CAP
        /\ aiAfford(v, "farm", FALSE)
     THEN "farm"
     ELSE IF /\ Len(v.aiOwnBarracks) = 0 /\ "barracks" \notin v.isBuilding
             /\ Len(v.aiWorkers) >= 2 /\ aiAfford(v, "barracks", FALSE)
     THEN "barracks"
     ELSE IF /\ Len(v.aiOwnBarracks) > 0 /\ Len(v.aiOwnArcheryRanges) = 0
             /\ "archer_trainer" \notin v.isBuilding
             /\ Len(v.aiWorkers) >= 3
             /\ aiAfford(v, "archer_trainer", FALSE)
     THEN "archer_trainer"
     ELSE IF /\ Len(v.aiOwnBarracks) > 0
             /\ v.aiOwnGuardTowersCount < AI_TARGET_GUARD_TOWERS
             /\ "guard_tower" \notin v.isBuilding /\ Len(v.aiWorkers) >= 3
             /\ v.currentAIWood > 50 /\ v.currentAICoal > 40
             /\ aiAfford(v, "guard_tower", FALSE)
     THEN "guard_tower"
     ELSE "none"

\* updateSingleAI, the idle builder is sent to harvest
aiGather(s, v, near) ==
  LET builder == v.availableBuilders[1]
      preferredType ==
        IF v.currentAICoal < 25 + Len(v.aiWorkers) * 3 /\ v.currentAIWood > 50
        THEN "mine"
        ELSE IF \/ 5 * v.currentAIWood < 6 * v.currentAICoal
                \/ v.currentAIWood < 40 + Len(v.aiWorkers) * 5
             THEN "tree" ELSE "mine"
      n1 == findNearestResource(s, builder, preferredType, near)
      targetNode == IF n1 # NoRes THEN n1
                    ELSE findNearestResource(s, builder,
                           IF preferredType = "tree" THEN "mine" ELSE "tree",
                           near)
  IN IF /\ Len(v.availableBuilders) > 0
        /\ s.unitObj[builder].state = "idle" /\ targetNode # NoRes
     THEN findAndTargetNearestResource(s, builder, s.resObj[targetNode].type,
                                       targetNode, TRUE, near)
     ELSE s

\* updateSingleAI, the training of a combat unit
aiTrain(s2, v) ==
  IF /\ Len(v.aiOwnBarracks) > 0
     /\ ~s2.bldgObj[v.aiOwnBarracks[1]].isTraining
     /\ Len(v.aiSoldiers) < AI_TARGET_SOLDIERS /\ aiAfford(v, "soldier", TRUE)
  THEN trainUnit(s2, "soldier", v.aiOwnBarracks[1])
  ELSE IF /\ Len(v.aiOwnArcheryRanges) > 0
          /\ ~s2.bldgObj[v.aiOwnArcheryRanges[1]].isTraining
          /\ Len(v.aiArchers) < AI_TARGET_ARCHERS
          /\ aiAfford(v, "archer", TRUE)
  THEN trainUnit(s2, "archer", v.aiOwnArcheryRanges[1])
  ELSE s2

\* updateSingleAI, the mass attack of the idle combat units
aiAttack(s3, v) ==
  LET idleCombatUnits ==
        Filter(v.aiUnits, LAMBDA u : /\ s3.unitObj[u].unitType \in
                                          {"soldier", "archer"}
                                     /\ s3.unitObj[u].state = "idle"
                                     /\ ~s3.unitObj[u].ai_tasked)
  IN IF /\ Len(idleCombatUnits) > 2 /\ v.enemyAIBase # NoBldg
        /\ s3.bldgObj[v.enemyAIBase].hp > 0
     THEN AttackAll(s3, idleCombatUnits, 1, v.enemyAIBase)
     ELSE s3

\* updateSingleAI once the throttle has let the pass through
aiDecide(s, v, f, free, near) ==
  IF v.currentAIBase = NoBldg \/ s.bldgObj[v.currentAIBase].hp <= 0 THEN s
  ELSE IF /\ Len(v.aiOwnBases) > 0 /\ ~s.bldgObj[v.aiOwnBases[1]].isTraining
          /\ Len(v.aiWorkers) < AI_TARGET_WORKERS /\ aiAfford(v, "worker", TRUE)
  THEN trainUnit(s, "worker", v.aiOwnBases[1])
  ELSE IF Len(v.availableBuilders) > 0 /\ aiPick(v) # "none" /\ free
  THEN aiTryBuildGeneric(s, f, v.currentAIBase, aiPick(v),
                         v.availableBuilders[1], free)
  ELSE aiAttack(aiTrain(aiGather(s, v, near), v), v)

aiPass(s, f, free, near) == aiDecide(s, aiView(s, f), f, free, near)

\* for comparison: a throttle that lets a pass through after the game is over
skipsPassInPlay(s, f) == s.factionAiUpdateCounters[f] + 1 < AiInterval

\* updateSingleAI, the throttle: the counter, once incremented, is below the
\* interval, or the game is over
skipsPass(s, f) ==
  s.factionAiUpdateCounters[f] + 1 < AiInterval \/ s.gameOver

updateSingleAI(s, f, free, near) ==
  IF skipsPass(s, f)
  THEN [s EXCEPT !.factionAiUpdateCounters[f] = @ + 1]
  ELSE aiPass([s EXCEPT !.factionAiUpdateCounters[f] = 0], f, free, near)

\* ---------------------------------------------------------------- game loop
MovingStates == {"moving", "moving_to_resource", "returning",
                 "moving_to_build", "moving_to_attack", "retreating"}

\* for comparison: a lookup that does not ask whether the object is still in
\* its array
StandingTarget(s, e) ==
  IF e.k = "unit" /\ s.unitObj[e.r].hp > 0 THEN e
  ELSE IF e.k = "bldg" /\ s.bldgObj[e.r].hasElement /\ s.bldgObj[e.r].hp > 0
  THEN e
  ELSE NoElem

\* units.find(u => u.element === e && u.hp > 0) ||
\* buildings.find(b => b.element === e && b.hp > 0), as the element found
LiveTarget(s, e) ==
  IF e.k = "unit" /\ e.r \in Range(s.units) /\ s.unitObj[e.r].hp > 0 THEN e
  ELSE IF e.k = "bldg" /\ e.r \in Range(s.buildings)
          /\ s.bldgObj[e.r].hasElement /\ s.bldgObj[e.r].hp > 0 THEN e
  ELSE NoElem

FactionOf(s, e) == IF e.k = "unit" THEN s.unitObj[e.r].faction
                   ELSE s.bldgObj[e.r].faction

ConnOf(s, e) == IF e.k = "unit" THEN s.unitObj[e.r].conn
                ELSE s.bldgObj[e.r].conn

\* for comparison: an arrival that only asks whether the site is found
siteFound(s, u, consData, arrivedAtElement) == consData # NoBldg

\* gameLoop, the test a worker makes of its site on arrival
siteValid(s, u, consData, arrivedAtElement) ==
  /\ consData # NoBldg /\ s.bldgObj[consData].isConstructing
  /\ s.bldgObj[consData].assignedWorker = u
  /\ BldgElem(consData) = arrivedAtElement

\* gameLoop, what a unit does on reaching its destination
arrive(s0, u, near) ==
  LET previousState == s0.unitObj[u].state
      arrivedAtElement == s0.unitObj[u].targetElement
      s == [s0 EXCEPT !.unitObj = [@ EXCEPT ![u].hasTarget = FALSE]]
      unit == s.unitObj[u]
  IN CASE previousState = "moving_to_resource" ->
            LET r == IF arrivedAtElement.k = "res"
                        /\ arrivedAtElement.r \in Range(s.resources)
                     THEN arrivedAtElement.r ELSE NoRes
            IN IF /\ r # NoRes /\ s.resObj[r].conn
                  /\ ~(s.resObj[r].type = "mine" /\ s.resObj[r].health <= 0)
               THEN LET s1 == setUnitState(
                                [s EXCEPT !.unitObj = [@ EXCEPT
                                    ![u].resourceType =
                                       ClassOf(s.resObj[r].type)]],
                                u, "harvesting")
                    IN [s1 EXCEPT !.unitObj = [@ EXCEPT ![u].harvestTimer = r]]
               ELSE findAndTargetNearestResource(s, u,
                      IF arrivedAtElement.k = "res"
                         /\ s.resObj[arrivedAtElement.r].type = "mine"
                      THEN "mine" ELSE "tree",
                      NoRes, IsAIControlled(s, unit.faction), near)
       [] previousState = "returning" -> handleDepositResource(s, u, near)
       [] previousState = "retreating" -> setUnitState(s, u, "idle")
       [] previousState = "moving_to_build" ->
            LET consData == Find(s.constructions,
                              LAMBDA c : s.bldgObj[c].id = unit.constructionId)
            IN IF siteValid(s, u, consData, arrivedAtElement)
               THEN startWorkerBuilding(s, u, consData)
               ELSE setUnitState(s, u, "idle")
       [] previousState = "moving" ->
            LET s1 == setUnitState(s, u, "idle")
            IN [s1 EXCEPT !.unitObj = [@ EXCEPT ![u].targetElement = NoElem]]
       [] OTHER ->      \* moving_to_attack
            LET targetData == LiveTarget(s, arrivedAtElement)
            IN IF targetData # NoElem
                  /\ FactionOf(s, targetData) # unit.faction
               THEN setUnitState(s, u, "attacking")
               ELSE setUnitState(s, u, "idle")

\* gameLoop, the movement of a unit in a moving state; arr holds the units
\* that are within range of, or have reached, their destination this frame
moveUnit(s, u, arr, near) ==
  LET unit == s.unitObj[u]
      ranged == /\ unit.state = "moving_to_attack"
                /\ unit.targetElement # NoElem
                /\ AttackRange(unit.unitType) > 0
      targetData == LiveTarget(s, unit.targetElement)
  IN IF ranged /\ ~(targetData # NoElem
                    /\ FactionOf(s, targetData) # unit.faction)
     THEN setUnitState(s, u, "idle")
     ELSE IF ranged /\ u \in arr THEN setUnitState(s, u, "attacking")
     ELSE IF u \notin arr
     THEN IF unit.ai_tasked
             /\ unit.state \notin {"moving_to_attack", "moving_to_build"}
          THEN [s EXCEPT !.unitObj = [@ EXCEPT ![u].ai_tasked = FALSE]]
          ELSE s
     ELSE arrive(s, u, near)

\* gameLoop, the attack of a unit in the attacking state; far holds the
\* attackers whose target has moved out of range
attackWith(s, u, timestamp, far) ==
  LET unit == s.unitObj[u]
      targetData == LiveTarget(s, unit.targetElement)
  IN IF ~(unit.state = "attacking" /\ AttackDamage(unit.unitType) > 0) THEN s
     ELSE IF \/ targetData = NoElem
             \/ FactionOf(s, targetData) = unit.faction
             \/ ~ConnOf(s, targetData)
     THEN setUnitState(s, u, "idle")
     ELSE IF u \in far
     THEN issueCommand(s, u, Command("moving_to_attack", TRUE, targetData,
                                     NoId, "none"),
                       IsAIControlled(s, unit.faction))
     ELSE IF \/ unit.lastAttackTime = 0
             \/ timestamp - unit.lastAttackTime >= AttackSpeed(unit.unitType)
     THEN LET s1 == dealDamage(s, targetData, AttackDamage(unit.unitType))
          IN [s1 EXCEPT !.unitObj = [@ EXCEPT ![u].lastAttackTime = timestamp]]
     ELSE s

\* gameLoop, the body of units.forEach
updateUnit(s, u, timestamp, arr, far, near) ==
  LET unit == s.unitObj[u]
      targetBase == BaseOf(s, unit.faction)
      homing == unit.state \in {"returning", "retreating"}
      chasing == unit.state = "moving_to_attack" /\ unit.targetElement # NoElem
  IN IF ~unit.conn \/ unit.hp <= 0 THEN s
     ELSE IF homing /\ ~(targetBase # NoBldg /\ s.bldgObj[targetBase].hp > 0)
     THEN setUnitState(s, u, "idle")
     ELSE IF chasing /\ LiveTarget(s, unit.targetElement) = NoElem
     THEN setUnitState(s, u, "idle")
     ELSE
       LET s1 == IF homing \/ chasing
                 THEN [s EXCEPT !.unitObj = [@ EXCEPT ![u].hasTarget = TRUE]]
                 ELSE s
           s2 == IF unit.state \in MovingStates /\ s1.unitObj[u].hasTarget
                 THEN moveUnit(s1, u, arr, near) ELSE s1
       IN attackWith(s2, u, timestamp, far)

\* forEach visits index i only while the array still has an entry there
RECURSIVE UnitsLoop(_, _, _, _, _, _)
UnitsLoop(s, i, timestamp, arr, far, near) ==
  IF i > Len(s.units) THEN s
  ELSE UnitsLoop(updateUnit(s, s.units[i], timestamp, arr, far, near),
                 i + 1, timestamp, arr, far, near)

\* gameLoop, the training progress of a building
progressTraining(s, b, deltaTime) ==
  LET bldg == s.bldgObj[b]
  IN IF ~bldg.isConstructing /\ bldg.isTraining /\ bldg.trainingTotalTime > 0
     THEN IF bldg.trainingProgress + deltaTime >= bldg.trainingTotalTime
          THEN completeAnyUnitTraining(
                 [s EXCEPT !.bldgObj = [@ EXCEPT
                     ![b].trainingProgress = @ + deltaTime]], b)
          ELSE [s EXCEPT !.bldgObj = [@ EXCEPT
                   ![b].trainingProgress = @ + deltaTime]]
     ELSE s

\* gameLoop, the attack of a guard tower; towerHit is the enemy unit closest
\* to the tower within its range, NoUnit if there is none
towerAttack(s1, b, timestamp, towerHit) ==
  LET bldg == s1.bldgObj[b]
  IN IF /\ ~bldg.isConstructing /\ bldg.buildingType = "guard_tower"
        /\ TowerDamage(bldg.buildingType) > 0 /\ bldg.hp > 0
        /\ \/ bldg.lastAttackTime = 0
           \/ timestamp - bldg.lastAttackTime >= TowerSpeed(bldg.buildingType)
        /\ towerHit # NoUnit /\ towerHit \in Range(s1.units)
        /\ s1.unitObj[towerHit].hp > 0
        /\ s1.unitObj[towerHit].faction # bldg.faction
     THEN [dealDamage(s1, UnitElem(towerHit), TowerDamage(bldg.buildingType))
             EXCEPT !.bldgObj = [@ EXCEPT ![b].lastAttackTime = timestamp]]
     ELSE s1

\* gameLoop, the body of buildings.forEach
updateBuilding(s, b, deltaTime, timestamp, towerHit) ==
  towerAttack(progressTraining(s, b, deltaTime), b, timestamp, towerHit)

RECURSIVE BuildingsLoop(_, _, _, _, _)
BuildingsLoop(s, i, deltaTime, timestamp, towerHit) ==
  IF i > Len(s.buildings) THEN s
  ELSE BuildingsLoop(updateBuilding(s, s.buildings[i], deltaTime, timestamp,
                                    towerHit),
                     i + 1, deltaTime, timestamp, towerHit)

\* for comparison: a site that nobody is building loses its progress
decaySite(s, c, deltaTime) ==
  LET cons == s.bldgObj[c]
      worker == cons.assignedWorker
  IN IF /\ worker # NoUnit
        /\ s.unitObj[worker].state = "building"
        /\ s.unitObj[worker].constructionId = cons.id
     THEN [s EXCEPT !.bldgObj = [@ EXCEPT
             ![c].progress = @ + deltaTime,
             ![c].hp = Min(cons.maxHp,
                           @ + (cons.maxHp \div cons.buildTime) * deltaTime)]]
     ELSE [s EXCEPT !.bldgObj = [@ EXCEPT ![c].progress = 0]]

\* gameLoop, the progress of a site whose worker is building
advanceSite(s, c, deltaTime) ==
  LET cons == s.bldgObj[c]
      worker == cons.assignedWorker
  IN IF /\ worker # NoUnit
        /\ s.unitObj[worker].state = "building"
        /\ s.unitObj[worker].constructionId = cons.id
     THEN [s EXCEPT !.bldgObj = [@ EXCEPT
             ![c].progress = @ + deltaTime,
             ![c].hp = Min(cons.maxHp,
                           @ + (cons.maxHp \div cons.buildTime) * deltaTime)]]
     ELSE s

\* gameLoop, the body of the loop over constructions
updateConstruction(s, c, deltaTime) ==
  LET cons == s.bldgObj[c]
  IN IF ~cons.isConstructing \/ ~cons.conn THEN s
     ELSE
       LET s1 == advanceSite(s, c, deltaTime)
       IN IF s1.bldgObj[c].progress >= cons.buildTime
          THEN completeConstruction(s1, c) ELSE s1

RECURSIVE ConstructionsLoop(_, _, _)
ConstructionsLoop(s, i, deltaTime) ==
  IF i < 1 THEN s
  ELSE ConstructionsLoop(updateConstruction(s, s.constructions[i], deltaTime),
                         i - 1, deltaTime)

\* gameLoop, the loop over constructions, from the last to the first
constructionsPass(s2, deltaTime) ==
  ConstructionsLoop(s2, Len(s2.constructions), deltaTime)

\* gameLoop, the AI pass of the frame
runAI(s4, free, near) ==
  IF s4.gameMode = "ai_vs_ai"
  THEN IF s4.aiGlobalUpdateCounter % 2 = 0
       THEN updateSingleAI(s4, p1FactionKey, free, near)
       ELSE updateSingleAI(s4, p2FactionKey, free, near)
  ELSE updateSingleAI(s4, p2FactionKey, free, near)

\* gameLoop, the end of the frame: if (!gameOver && checkGameOver()) return;
\* requestAnimationFrame(gameLoop)
endOfFrame(s5) ==
  IF s5.gameOver THEN [s5 EXCEPT !.rafScheduled = TRUE]
  ELSE Bind(checkGameOver(s5),
            LAMBDA s6 : [s6 EXCEPT !.rafScheduled = ~s6.gameOver])

\* for comparison: a guard that looks at the screen only
notInGame(s) == s.currentGameState # "in_game"

\* gameLoop, the guard of the frame:
\* if (currentGameState !== 'in_game' || gameOver) { ...; return; }
skipsFrame(s) == s.currentGameState # "in_game" \/ s.gameOver

frameDelta(s, timestamp) ==
  IF s.lastTimestamp > 0 THEN Min(MaxDelta, timestamp - s.lastTimestamp)
  ELSE DefaultDelta

gameLoop(s, timestamp, arr, far, near, free, towerHit) ==
  IF skipsFrame(s)
  THEN [s EXCEPT !.rafScheduled =
          s.gameInitialized \/ s.currentGameState # "start_modal"]
  ELSE endOfFrame(
         runAI([constructionsPass(
                  BuildingsLoop(
                    UnitsLoop([s EXCEPT !.lastTimestamp = timestamp], 1,
                              timestamp, arr, far, near),
                    1, frameDelta(s, timestamp), timestamp, towerHit),
                  frameDelta(s, timestamp))
                EXCEPT !.aiGlobalUpdateCounter = @ + 1],
               free, near))

\* ------------------------------------------------------------ player input
handleUnitClick(s, u) ==
  IF s.gameMode = "ai_vs_ai" \/ s.selectedUnit = u THEN s
  ELSE [deselectAll(s) EXCEPT !.selectedUnit = u]

handleBuildingClick(s, b) ==
  IF s.gameMode = "ai_vs_ai" THEN s
  ELSE IF s.bldgObj[b].buildingType = "farm" /\ ~s.bldgObj[b].isConstructing
  THEN deselectAll(s)
  ELSE IF s.selectedBuilding = b THEN s
  ELSE [deselectAll(s) EXCEPT !.selectedBuilding = b]

showMainMenu(s) == [s EXCEPT !.currentGameState = "main_menu"]

hideMainMenu(s) ==
  IF s.gameInitialized /\ ~s.gameOver
  THEN [s EXCEPT !.currentGameState = "in_game"]
  ELSE [s EXCEPT !.currentGameState = "start_modal"]

startPlacingBuilding(s, type) ==
  IF s.gameMode = "ai_vs_ai" \/ s.placingBuildingType # "none" THEN s
  ELSE IF s.p1Wood < BldgCost(type).wood \/ s.p1Coal < BldgCost(type).coal
  THEN s
  ELSE updateResourceDisplay(
         [s EXCEPT !.p1Wood = @ - BldgCost(type).wood,
                   !.p1Coal = @ - BldgCost(type).coal,
                   !.placingBuildingType = type,
                   !.placementValid = FALSE])

finalizePlacement(s) ==
  IF s.gameMode = "ai_vs_ai" THEN s
  ELSE IF s.placingBuildingType = "none" \/ ~s.placementValid
  THEN cancelPlacement(s)
  ELSE LET s1 == createConstructionSite(s, s.placingBuildingType,
                                        playerFactionKey, s.selectedUnit)
           s2 == [s1 EXCEPT !.placingBuildingType = "none",
                            !.placementValid = FALSE]
       IN IF s2.selectedUnit # NoUnit THEN s2 ELSE deselectAll(s2)

\* the mouse moves while a building is being placed; valid says whether the
\* box under the pointer is free of overlaps
updatePlacementPreview(s, valid) == [s EXCEPT !.placementValid = valid]

\* the guard shared by the viewport and keyboard handlers
Playing(s) == /\ s.currentGameState = "in_game" /\ s.gameInitialized
              /\ ~s.gameOver /\ s.gameMode = "human_vs_ai"

\* the unit the context menu commands
Commandable(s) == /\ Playing(s) /\ s.placingBuildingType = "none"
                  /\ s.selectedUnit # NoUnit
                  /\ s.unitObj[s.selectedUnit].faction = playerFactionKey

\* ------------------------------------------------------------ initial state
\* resetCoreGameState and the assignments of initializeAndStartGame
Blank(mode) ==
  [units |-> <<>>, buildings |-> <<>>, constructions |-> <<>>,
   resources |-> <<>>, unitObj |-> <<>>, bldgObj |-> <<>>, resObj |-> <<>>,
   p1Wood |-> INITIAL_WOOD, p1Coal |-> INITIAL_COAL,
   p2Wood |-> INITIAL_WOOD, p2Coal |-> INITIAL_COAL,
   p1CurrentFood |-> 0, p1FoodCapacity |-> STARTING_FOOD_CAP,
   p2CurrentFood |-> 0, p2FoodCapacity |-> STARTING_FOOD_CAP,
   gameInitialized |-> FALSE, gameOver |-> FALSE, gameMode |-> mode,
   currentGameState |-> "in_game", selectedUnit |-> NoUnit,
   selectedBuilding |-> NoBldg, playerBaseData |-> NoBldg,
   opponentBaseData |-> NoBldg, unitIdCounter |-> 0,
   buildingIdCounter |-> 0, constructionIdCounter |-> 0,
   factionAiUpdateCounters |-> [f \in Factions |-> 0],
   aiGlobalUpdateCounter |-> 0, lastTimestamp |-> 0, rafScheduled |-> FALSE,
   placingBuildingType |-> "none", placementValid |-> FALSE,
   depleting |-> {}, winner |-> "none",
   credited |-> [f \in Factions |-> [wood |-> 0, coal |-> 0]],
   harvested |-> [f \in Factions |-> [wood |-> 0, coal |-> 0]],
   taken |-> [r \in 1..(NumTrees + NumMines) |-> 0]]

\* placeResourcesCarefully: the nodes of the map, trees first
placeResources(s) ==
  [s EXCEPT
     !.resObj = [r \in 1..(NumTrees + NumMines) |->
                   IF r <= NumTrees
                   THEN [type |-> "tree", health |-> 1, conn |-> TRUE]
                   ELSE [type |-> "mine", health |-> MineCharge,
                         conn |-> TRUE]],
     !.resources = [r \in 1..(NumTrees + NumMines) |-> r]]

initializeMapAndBases(s) ==
  LET s1 == createBuilding(s, "base", p1FactionKey, TRUE, TRUE)
      s2 == createBuilding(s1, "base", p2FactionKey, TRUE, TRUE)
      s3 == placeResources(s2)
      s4 == createUnit(s3, "worker", p1FactionKey)
      s5 == IF s.gameMode = "ai_vs_ai"
            THEN createUnit(s4, "worker", p1FactionKey) ELSE s4
  IN createUnit(createUnit(s5, "worker", p2FactionKey), "worker",
                p2FactionKey)

initializeAndStartGame(mode) ==
  LET s1 == initializeMapAndBases(Blank(mode))
  IN [updateResourceDisplay([s1 EXCEPT !.gameInitialized = TRUE])
        EXCEPT !.rafScheduled = TRUE]

\* gameWorld.innerHTML = '': every element leaves the document
clearWorld(s) ==
  [s EXCEPT
     !.unitObj = [i \in 1..Len(@) |-> [@[i] EXCEPT !.conn = FALSE]],
     !.bldgObj = [i \in 1..Len(@) |-> [@[i] EXCEPT !.conn = FALSE]],
     !.resObj = [i \in 1..Len(@) |-> [@[i] EXCEPT !.conn = FALSE]]]

\* the Restart button of the main menu
restartGame(s) ==
  clearWorld([hideMainMenu(s) EXCEPT !.currentGameState = "start_modal"])

\* the Play Again button of the game-over message
playAgain(s) == clearWorld([s EXCEPT !.currentGameState = "start_modal"])

\* The pending requestAnimationFrame(gameLoop) callbacks, counted: l.st is
\* the program state and l.chains the number of callbacks pending.
Loops(s) == [st |-> s, chains |-> IF s.rafScheduled THEN 1 ELSE 0]

\* an animation frame runs the n callbacks pending, one after the other with
\* the same timestamp; k counts the callbacks they schedule
RECURSIVE RunCallbacks(_, _, _, _)
RunCallbacks(s, n, timestamp, k) ==
  IF n = 0 THEN [st |-> s, chains |-> k]
  ELSE LET after == gameLoop(s, timestamp, {}, {},
                             [i \in 1..Len(s.resObj) |-> i], FALSE, NoUnit)
       IN RunCallbacks(after, n - 1, timestamp,
                       k + IF after.rafScheduled THEN 1 ELSE 0)

animationFrame(l, timestamp) == RunCallbacks(l.st, l.chains, timestamp, 0)

\* startGameWithOptions: the game is set up anew and initializeAndStartGame
\* requests a frame, whatever is pending
startGameWithOptions(l, mode) ==
  [st |-> initializeAndStartGame(mode), chains |-> l.chains + 1]

\* the variables hold the program state s
Start(s) ==
  /\ units = s.units /\ buildings = s.buildings
  /\ constructions = s.constructions /\ resources = s.resources
  /\ unitObj = s.unitObj /\ bldgObj = s.bldgObj /\ resObj = s.resObj
  /\ p1Wood = s.p1Wood /\ p1Coal = s.p1Coal
  /\ p2Wood = s.p2Wood /\ p2Coal = s.p2Coal
  /\ p1CurrentFood = s.p1CurrentFood /\ p1FoodCapacity = s.p1FoodCapacity
  /\ p2CurrentFood = s.p2CurrentFood /\ p2FoodCapacity = s.p2FoodCapacity
  /\ gameInitialized = s.gameInitialized /\ gameOver = s.gameOver
  /\ gameMode = s.gameMode /\ currentGameState = s.currentGameState
  /\ selectedUnit = s.selectedUnit /\ selectedBuilding = s.selectedBuilding
  /\ playerBaseData = s.playerBaseData
  /\ opponentBaseData = s.opponentBaseData
  /\ unitIdCounter = s.unitIdCounter
  /\ buildingIdCounter = s.buildingIdCounter
  /\ constructionIdCounter = s.constructionIdCounter
  /\ factionAiUpdateCounters = s.factionAiUpdateCounters
  /\ aiGlobalUpdateCounter = s.aiGlobalUpdateCounter
  /\ lastTimestamp = s.lastTimestamp /\ rafScheduled = s.rafScheduled
  /\ placingBuildingType = s.placingBuildingType
  /\ placementValid = s.placementValid /\ depleting = s.depleting
  /\ winner = s.winner /\ credited = s.credited
  /\ harvested = s.harvested /\ taken = s.taken

\* ------------------------------------------------------------------ actions
\* the units whose movement or range test depends on this frame's geometry
Movers(s) ==
  IF s.currentGameState # "in_game" \/ s.gameOver THEN {}
  ELSE {u \in Range(s.units) :
          /\ s.unitObj[u].hp > 0
          /\ s.unitObj[u].state \in MovingStates}

Chasers(s) ==
  IF s.currentGameState # "in_game" \/ s.gameOver THEN {}
  ELSE {u \in Range(s.units) :
          /\ s.unitObj[u].hp > 0
          /\ s.unitObj[u].state = "attacking"
          /\ s.unitObj[u].targetElement.k = "unit"}

TowerTargets(s) ==
  IF \E i \in 1..Len(s.buildings) :
        /\ s.bldgObj[s.buildings[i]].buildingType = "guard_tower"
        /\ ~s.bldgObj[s.buildings[i]].isConstructing
  THEN {NoUnit} \cup {u \in Range(s.units) : s.unitObj[u].hp > 0}
  ELSE {NoUnit}

\* ---------------------------------------------------------------- scenarios
\* An event of a run: a frame of the game loop with the geometry it meets, a
\* harvest timeout, or an input of the player.
Frame(gap, arr, free) == [op |-> "frame", gap |-> gap, arr |-> arr, free |-> free]
Timer(u) == [op |-> "timer", u |-> u]
Click(kind, ref) == [op |-> kind, r |-> ref]
Order(kind, elem) == [op |-> kind, e |-> elem]

Apply(s, e) ==
  CASE e.op = "frame" ->
         gameLoop(s, s.lastTimestamp + e.gap, e.arr, {},
                  [i \in 1..Len(s.resObj) |-> i], e.free, NoUnit)
    [] e.op = "timer" ->
         handleHarvestComplete(s, e.u, s.unitObj[e.u].harvestTimer,
                               [i \in 1..Len(s.resObj) |-> i])
    [] e.op = "mine" -> removeMine(s, e.r)
    [] e.op = "unit" -> handleUnitClick(s, e.r)
    [] e.op = "building" -> handleBuildingClick(s, e.r)
    [] e.op = "attack" ->
         issueCommand(s, s.selectedUnit,
                      Command("moving_to_attack", TRUE, e.e, NoId, "none"),
                      FALSE)
    [] e.op = "harvest" ->
         issueCommand(s, s.selectedUnit,
                      Command("moving_to_resource", TRUE, e.e, NoId,
                              s.resObj[e.e.r].type), FALSE)
    [] e.op = "train" ->
         trainUnit(s, Trains(s.bldgObj[s.selectedBuilding].buildingType),
                   s.selectedBuilding)
    [] e.op = "place" -> startPlacingBuilding(s, e.r)
    [] e.op = "preview" -> updatePlacementPreview(s, e.r)
    [] OTHER -> finalizePlacement(s)

GameModes == {"human_vs_ai", "ai_vs_ai"}

\* every unit that moves reaches its destination in the frame
Everyone == 1..MaxUnits
\* the workers of the run below
Workers == {1, 2, 3, 4, 5, 7}

\* A run of a human_vs_ai game, in parts.  The AI trains two workers and,
\* finding no free spot for a farm, sends a worker to the mine; the player
\* places a barracks.
ToEconomy ==
  <<Frame(1, Everyone, TRUE), Frame(2, Everyone, TRUE),
    Frame(2, Everyone, TRUE), Frame(2, Everyone, TRUE),
    Frame(2, Everyone, TRUE), Frame(2, Everyone, FALSE),
    Click("unit", 1), Click("place", "barracks"), Click("preview", TRUE),
    Click("finalize", 0)>>

\* The barracks is built while the AI worker empties the mine.  The player
\* trains a soldier and has a farm built; the AI builds its farm and its
\* barracks.
ToArmies ==
  <<Frame(2, Everyone, TRUE), Timer(2),
    Frame(2, Everyone, TRUE), Frame(2, Everyone, TRUE), Timer(2),
    Click("mine", 3), Frame(2, Everyone, TRUE),
    Click("building", 4), Click("train", 0), Click("unit", 1),
    Click("place", "farm"), Click("preview", TRUE), Click("finalize", 0),
    Frame(2, Everyone, TRUE), Frame(2, Everyone, TRUE),
    Frame(2, Everyone, TRUE), Frame(2, Everyone, FALSE)>>

\* The player trains a second soldier; the AI trains soldiers and sends its
\* workers to the trees.  The trees are used up and the AI orders its three
\* soldiers to the player's base.  The player sends one soldier against an
\* enemy worker and selects the other.
ToSkirmish ==
  <<Click("building", 4), Click("train", 0),
    Frame(2, Everyone, FALSE), Frame(2, Everyone, FALSE),
    Frame(2, Everyone, FALSE), Frame(2, Everyone, FALSE),
    Timer(2), Timer(3),
    Frame(2, Workers, FALSE), Frame(2, Workers, FALSE),
    Timer(2), Timer(4),
    Frame(2, Workers, FALSE), Frame(2, Workers, FALSE),
    Click("unit", 6), Order("attack", UnitElem(2)), Click("unit", 8)>>

History == ToEconomy \o ToArmies \o ToSkirmish

\* the state after the events first..last of the history, from state s
RECURSIVE Replay(_, _, _)
Replay(s, first, last) ==
  IF first > last THEN s
  ELSE IF first = last THEN Apply(s, History[first])
  ELSE CHOOSE after \in
         {Replay(half, (first + last) \div 2 + 1, last) :
            half \in {Replay(s, first, (first + last) \div 2)}} : TRUE

\* The states to explore from, each with the inputs and the time the
\* exploration admits: the opening of either mode, and two states of the run.
Scenarios ==
  {[mode |-> mode, events |-> 0,
    inputs |-> OpeningInputs, time |-> OpeningTime] : mode \in GameModes}
  \cup {[mode |-> "human_vs_ai", events |-> Len(ToEconomy),
         inputs |-> EconomyInputs, time |-> EconomyTime],
        [mode |-> "human_vs_ai", events |-> Len(History),
         inputs |-> SkirmishInputs, time |-> SkirmishTime]}

Snapshot(sc) == Replay(initializeAndStartGame(sc.mode), 1, sc.events)

Init ==
  \E sc \in Scenarios :
     \E s \in {Snapshot(sc)} :
        Start(s) /\ inputs = sc.inputs /\ horizon = s.lastTimestamp + sc.time

\* the step to program state s, within the bounds of the model
Commit(s) == Len(s.unitObj) <= MaxUnits /\ Install(s)

\* a requestAnimationFrame callback runs gameLoop
GameLoop ==
  /\ rafScheduled
  /\ \E gap \in 1..MaxGap, arr \in SUBSET Movers(St),
        far \in SUBSET Chasers(St), near \in NearOrders(St),
        free \in BOOLEAN, towerHit \in TowerTargets(St) :
       /\ lastTimestamp + gap <= horizon
       /\ Commit(gameLoop(St, lastTimestamp + gap, arr, far, near, free,
                          towerHit))
  /\ UNCHANGED <<inputs, horizon>>

\* the timeout set when a worker starts harvesting expires
HarvestTimer ==
  \E u \in 1..Len(unitObj), near \in NearOrders(St) :
     /\ unitObj[u].harvestTimer # NoRes
     /\ Install(handleHarvestComplete(St, u, unitObj[u].harvestTimer, near))
     /\ UNCHANGED <<inputs, horizon>>

\* the 500 ms timeout that removes a depleted mine expires
MineRemoval ==
  \E r \in depleting :
     /\ Install(removeMine(St, r))
     /\ UNCHANGED <<inputs, horizon>>

Input(s) ==
  /\ inputs > 0 /\ Install(s) /\ inputs' = inputs - 1
  /\ UNCHANGED horizon

ClickUnit ==
  \E u \in Range(units) :
     /\ gameMode = "human_vs_ai" /\ unitObj[u].faction = playerFactionKey
     /\ selectedUnit # u
     /\ Input(handleUnitClick(St, u))

ClickBuilding ==
  \E b \in Range(buildings) :
     /\ gameMode = "human_vs_ai" /\ bldgObj[b].hasElement
     /\ selectedBuilding # b
     /\ Input(handleBuildingClick(St, b))

\* a left click on the ground, or Escape with something selected
Deselect ==
  /\ Playing(St) /\ placingBuildingType = "none"
  /\ selectedUnit # NoUnit \/ selectedBuilding # NoBldg
  /\ Input(deselectAll(St))

MoveCommand ==
  /\ Commandable(St)
  /\ Input(issueCommand(St, selectedUnit,
                        Command("moving", TRUE, NoElem, NoId, "none"), FALSE))

AttackCommand ==
  \E e \in {UnitElem(u) : u \in Range(units)}
           \cup {BldgElem(b) : b \in Range(buildings)} :
     /\ Commandable(St)
     /\ LiveTarget(St, e) = e
     /\ FactionOf(St, e) # playerFactionKey
     /\ AttackDamage(unitObj[selectedUnit].unitType) > 0
     /\ Input(issueCommand(St, selectedUnit,
                Command("moving_to_attack", TRUE, e, NoId, "none"), FALSE))

\* gameHandleContextMenu, a right click on node r with a worker selected:
\* the test reads targetResourceData.type === 'mine' && resourceData.health
\* <= 0, and resourceData is not declared in the handler, so the test throws
\* a ReferenceError as soon as the node is a mine
resourceMenu(s, r) ==
  IF s.resObj[r].type = "mine" THEN "throws" ELSE "harvest"

\* buildHarvestContextMenu, the order the Harvest button gives
harvestOrder(s, r) ==
  issueCommand(s, s.selectedUnit,
               Command("moving_to_resource", TRUE, ResElem(r), NoId,
                       s.resObj[r].type), FALSE)

\* the context menu offers Harvest on a tree; on a mine the handler throws
HarvestCommand ==
  \E r \in Range(resources) :
     /\ Commandable(St)
     /\ unitObj[selectedUnit].unitType = "worker"
     /\ resourceMenu(St, r) = "harvest"
     /\ Input(harvestOrder(St, r))

AssistCommand ==
  \E c \in Range(constructions) :
     /\ Commandable(St)
     /\ bldgObj[c].faction = playerFactionKey
     /\ CanBuild(unitObj[selectedUnit].unitType)
     /\ bldgObj[c].assignedWorker \in {NoUnit, selectedUnit}
     /\ Input(assignWorkerToConstruction(St, c, selectedUnit, FALSE))

ReturnCommand ==
  /\ Commandable(St)
  /\ playerBaseData # NoBldg
  /\ LiveTarget(St, BldgElem(playerBaseData)) # NoElem
  /\ unitObj[selectedUnit].resourceType # "none"
  /\ Input(issueCommand(St, selectedUnit,
             Command("returning", TRUE, BldgElem(playerBaseData), NoId,
                     "none"), FALSE))

\* the train hotkey, or the Train button of the command card
TrainCommand ==
  /\ Playing(St)
  /\ selectedBuilding # NoBldg
  /\ bldgObj[selectedBuilding].faction = playerFactionKey
  /\ ~bldgObj[selectedBuilding].isConstructing
  /\ Trains(bldgObj[selectedBuilding].buildingType) # "none"
  /\ Len(unitObj) < MaxUnits
  /\ Input(trainUnit(St, Trains(bldgObj[selectedBuilding].buildingType),
                     selectedBuilding))

StartPlacing ==
  \E type \in BuildingTypes \ {"base"} :
     /\ Playing(St)
     /\ selectedUnit # NoUnit
     /\ unitObj[selectedUnit].unitType = "worker"
     /\ unitObj[selectedUnit].faction = playerFactionKey
     /\ placingBuildingType = "none"
     /\ Input(startPlacingBuilding(St, type))

\* a mouse move over the viewport while placing
PlacementPreview ==
  \E valid \in BOOLEAN :
     /\ Playing(St) /\ placingBuildingType # "none"
     /\ placementValid # valid
     /\ Input(updatePlacementPreview(St, valid))

FinalizePlacement ==
  /\ Playing(St) /\ placingBuildingType # "none"
  /\ Input(finalizePlacement(St))

\* a right click or Escape while placing
CancelPlacement ==
  /\ Playing(St) /\ placingBuildingType # "none"
  /\ Input(cancelPlacement(St))

\* Escape with nothing selected opens the main menu
ShowMainMenu ==
  /\ Playing(St) /\ placingBuildingType = "none"
  /\ selectedUnit = NoUnit /\ selectedBuilding = NoBldg
  /\ Input(showMainMenu(St))

\* Escape or Resume in the main menu
HideMainMenu ==
  /\ currentGameState = "main_menu" /\ gameInitialized /\ ~gameOver
  /\ Input(hideMainMenu(St))

Next ==
  \/ GameLoop \/ HarvestTimer \/ MineRemoval
  \/ ClickUnit \/ ClickBuilding \/ Deselect
  \/ MoveCommand \/ AttackCommand \/ HarvestCommand \/ AssistCommand
  \/ ReturnCommand \/ TrainCommand
  \/ StartPlacing \/ PlacementPreview \/ FinalizePlacement \/ CancelPlacement
  \/ ShowMainMenu \/ HideMainMenu

Spec == Init /\ [][Next]_vars

\* setTimeout callbacks run: the removal of a depleted mine is not put off
\* forever
FairSpec == Spec /\ WF_vars(MineRemoval)

\* ------------------------------------------------------------------ claims
\* the values of damage a call of dealDamage is given
Damages == 1..(WorkerHp + 1)

\* the units that are attacking elem or moving to attack it
AttackersOf(s, elem) ==
  {a \in Range(s.units) :
     /\ s.unitObj[a].state \in {"attacking", "moving_to_attack"}
     /\ s.unitObj[a].targetElement = elem}

\* C1: when dealDamage drives a unit's hp to 0, then on return of that call
\* the unit is absent from units and every unit that was attacking it or
\* moving to attack it is idle with no target.
C1_KillRemovesUnitAndRevertsAttackers ==
  \A u \in Range(units) : \A damage \in Damages :
     (unitObj[u].hp > 0 /\ damage >= unitObj[u].hp) =>
        LET after == dealDamage(St, UnitElem(u), damage)
        IN /\ after.unitObj[u].hp = 0
           /\ u \notin Range(after.units)
           /\ \A a \in AttackersOf(St, UnitElem(u)) :
                /\ after.unitObj[a].state = "idle"
                /\ after.unitObj[a].targetElement = NoElem
                /\ ~after.unitObj[a].hasTarget

\* a unit has been killed and the unit that struck it this frame is idle
C1_Witness ==
  \E u \in 1..Len(unitObj) :
     /\ unitObj[u].hp = 0 /\ u \notin Range(units)
     /\ \E a \in Range(units) :
          /\ AttackDamage(unitObj[a].unitType) > 0
          /\ unitObj[a].lastAttackTime = lastTimestamp
          /\ unitObj[a].state = "idle"
          /\ unitObj[a].targetElement = NoElem

\* every object dealDamage can be given
Targets ==
  {UnitElem(u) : u \in 1..Len(unitObj)} \cup
  {BldgElem(b) : b \in 1..Len(bldgObj)}

HpOf(s, e) == IF e.k = "unit" THEN s.unitObj[e.r].hp ELSE s.bldgObj[e.r].hp
MaxHpOf(s, e) ==
  IF e.k = "unit" THEN s.unitObj[e.r].maxHp ELSE s.bldgObj[e.r].maxHp

\* C2: every unit, building and construction site has 0 <= hp <= maxHp;
\* damage larger than the remaining hp leaves hp at exactly 0, dealDamage on
\* a target at hp <= 0 changes nothing, and the hp a site gains while it is
\* built never exceeds maxHp.
C2_HpWithinBounds ==
  \A e \in Targets :
     /\ 0 <= HpOf(St, e) /\ HpOf(St, e) <= MaxHpOf(St, e)
     /\ \A damage \in Damages :
          LET after == dealDamage(St, e, damage)
          IN IF HpOf(St, e) <= 0 THEN after = St
             ELSE HpOf(after, e) = Max(0, HpOf(St, e) - damage)

\* a worker has died of a blow larger than the hp it had left, and a site has
\* been built up to its full hp by a gain larger than what it lacked
C2_Witness ==
  /\ \E u \in 1..Len(unitObj) :
        /\ unitObj[u].hp = 0 /\ u \notin Range(units)
        /\ unitObj[u].maxHp % SoldierDamage # 0
  /\ \E c \in 1..Len(bldgObj) :
        /\ bldgObj[c].buildTime > 0
        /\ bldgObj[c].hp = bldgObj[c].maxHp
        /\ (bldgObj[c].maxHp \div 10)
             + (bldgObj[c].maxHp \div bldgObj[c].buildTime) * bldgObj[c].progress
           > bldgObj[c].maxHp

BaseHpOf(f) == bldgObj[BaseOf(St, f)].hp

\* C3: when the base of exactly one faction has its hp driven to 0 while the
\* base of the other faction stands, the game is over and the winner recorded
\* is the opponent of the faction that lost its base.
C3_OneBaseLostOpponentWins ==
  [][\A f \in Factions :
       (/\ BaseHpOf(f) > 0 /\ BaseHpOf(Other(f)) > 0
        /\ BaseHpOf(f)' = 0 /\ BaseHpOf(Other(f))' > 0)
       => (gameOver' /\ winner' = Other(f))]_vars

\* the player's base is destroyed, the other base stands, the game is over
C3_Witness ==
  /\ gameOver /\ winner = p2FactionKey
  /\ BaseHpOf(p1FactionKey) = 0 /\ BaseHpOf(p2FactionKey) > 0
  /\ BaseOf(St, p1FactionKey) \notin Range(buildings)

\* C4: if the bases of both factions are destroyed in the same gameLoop tick,
\* the outcome recorded is a draw, not a win for either faction.
C4_BothBasesLostIsDraw ==
  [][(/\ BaseHpOf(p1FactionKey) > 0 /\ BaseHpOf(p2FactionKey) > 0
      /\ BaseHpOf(p1FactionKey)' = 0 /\ BaseHpOf(p2FactionKey)' = 0)
     => winner' = "Draw"]_vars

\* C5: game over is terminal: the outcome recorded never changes, a later
\* call of checkGameOver has no side effect, and a later call of gameLoop
\* updates no unit, building, construction or AI state.
C5_GameOverIsTerminal ==
  [][gameOver =>
       /\ gameOver' /\ winner' = winner
       /\ checkGameOver(St) = St
       /\ \A gap \in 1..MaxGap, free \in BOOLEAN :
            [gameLoop(St, lastTimestamp + gap, Range(units), {},
                      [i \in 1..Len(resObj) |-> i], free, NoUnit)
               EXCEPT !.rafScheduled = rafScheduled] = St]_vars

\* the game is over, a frame is scheduled and a unit stands attacking a
\* target that is alive
C5_Witness ==
  /\ gameOver /\ rafScheduled /\ currentGameState = "in_game"
  /\ \E a \in Range(units) :
        /\ unitObj[a].state = "attacking"
        /\ AttackDamage(unitObj[a].unitType) > 0
        /\ LiveTarget(St, unitObj[a].targetElement) # NoElem

TreesRemoved ==
  Cardinality({r \in 1..Len(resObj) :
                 resObj[r].type = "tree" /\ r \notin Range(resources)})

ChargeConsumed ==
  SumSeq(resObj, LAMBDA node : IF node.type = "mine"
                               THEN MineCharge - node.health ELSE 0)

\* C6: every increase of a stockpile is a deposit of +1 that corresponds to
\* one completed harvest of the depositing worker, so that the wood credited
\* never exceeds the number of trees removed and the coal credited never
\* exceeds the mine charge consumed.
C6_DepositsMatchHarvests ==
  /\ \A f \in Factions :
        /\ credited[f].wood <= harvested[f].wood
        /\ credited[f].coal <= harvested[f].coal
  /\ credited[P1].wood + credited[P2].wood <= TreesRemoved
  /\ credited[P1].coal + credited[P2].coal <= ChargeConsumed

\* C7: each completed mine harvest lowers the charge of the mine by exactly
\* 1 and a completed tree harvest removes the tree; the charge of a mine is
\* never negative, a mine yields no more completed harvests than its initial
\* charge and a tree at most one.
C7_ChargeAccounting ==
  \A r \in 1..Len(resObj) :
     /\ resObj[r].health >= 0
     /\ IF resObj[r].type = "mine"
        THEN /\ resObj[r].health = MineCharge - taken[r]
             /\ taken[r] <= MineCharge
        ELSE /\ taken[r] <= 1
             /\ taken[r] = 1 => r \notin Range(resources)

\* the mine has been emptied, its removal is pending, and a tree has been
\* harvested
C7_Witness ==
  /\ \E r \in depleting :
        resObj[r].type = "mine" /\ taken[r] = MineCharge
  /\ \E r \in 1..Len(resObj) : resObj[r].type = "tree" /\ taken[r] = 1

\* a mine whose charge has reached 0, or a tree that has been harvested
Exhausted(r) == resObj[r].health <= 0

\* unit u is on its way to node r, resp. is harvesting it
MovingTo(objs, u, r) ==
  /\ u <= Len(objs) /\ objs[u].state = "moving_to_resource"
  /\ objs[u].targetElement = ResElem(r)
HarvestingAt(objs, u, r) ==
  /\ u <= Len(objs) /\ objs[u].state = "harvesting"
  /\ objs[u].harvestTimer = r

Stock(s, f) == IF f = playerFactionKey THEN <<s.p1Wood, s.p1Coal>>
               ELSE <<s.p2Wood, s.p2Coal>>

\* the request to train in building b what it trains is accepted in state s
Accepts(s, b) ==
  /\ ~s.bldgObj[b].isTraining
  /\ trainUnit(s, Trains(s.bldgObj[b].buildingType), b).bldgObj[b].isTraining

\* C9: the cost of an accepted training request is deducted once, at
\* acceptance; food in use and units stay as they are until the training
\* progress reaches the training time, and then one unit of the type
\* requested is added for the faction, food in use rises by its foodCost and
\* the building is no longer training.
C9_TrainingLifecycle ==
  [][/\ \A b \in Range(buildings) :
          Accepts(St, b) =>
            LET f == bldgObj[b].faction
                type == Trains(bldgObj[b].buildingType)
                after == trainUnit(St, type, b)
            IN /\ Stock(after, f) = <<Stock(St, f)[1] - UnitCost(type).wood,
                                      Stock(St, f)[2] - UnitCost(type).coal>>
               /\ Stock(after, Other(f)) = Stock(St, Other(f))
               /\ after.units = units /\ after.unitObj = unitObj
               /\ after.bldgObj[b].trainingUnitType = type
               /\ after.bldgObj[b].trainingProgress = 0
     /\ \A b \in Range(buildings), deltaTime \in 1..MaxDelta :
          (bldgObj[b].isTraining /\ ~bldgObj[b].isConstructing) =>
            LET f == bldgObj[b].faction
                type == bldgObj[b].trainingUnitType
                after == progressTraining(St, b, deltaTime)
            IN /\ \A g \in Factions : Stock(after, g) = Stock(St, g)
               /\ IF bldgObj[b].trainingProgress + deltaTime
                       < UnitTrainTime(type)
                  THEN /\ after.units = units
                       /\ Len(after.unitObj) = Len(unitObj)
                       /\ after.bldgObj[b].isTraining
                  ELSE /\ after.units = Append(units, Len(unitObj) + 1)
                       /\ Len(after.unitObj) = Len(unitObj) + 1
                       /\ after.unitObj[Len(unitObj) + 1].unitType = type
                       /\ after.unitObj[Len(unitObj) + 1].faction = f
                       /\ calculateCurrentFood(after, f)
                            = calculateCurrentFood(St, f) + FoodCost(type)
                       /\ ~after.bldgObj[b].isTraining
     /\ Len(unitObj') - Len(unitObj)
          <= Cardinality({b \in 1..Len(bldgObj) : bldgObj[b].isTraining})
     /\ \A u \in (Len(unitObj) + 1)..Len(unitObj') :
          \E b \in 1..Len(bldgObj) :
             /\ bldgObj[b].isTraining
             /\ bldgObj[b].trainingUnitType = unitObj'[u].unitType
             /\ bldgObj[b].faction = unitObj'[u].faction
             /\ ~bldgObj'[b].isTraining \/ bldgObj'[b].trainingProgress = 0
             /\ u \in Range(units')]_vars

\* the player has trained a worker: the cost of one worker is gone from the
\* stockpile, the worker is there, and the base is no longer training
C9_Witness ==
  /\ gameMode = "human_vs_ai"
  /\ p1Wood = INITIAL_WOOD - UnitCost("worker").wood
  /\ p1Coal = INITIAL_COAL - UnitCost("worker").coal
  /\ ~bldgObj[playerBaseData].isTraining
  /\ calculateCurrentFood(St, playerFactionKey) = 2 * FoodCost("worker")
  /\ \E u \in Range(units) :
        /\ u > 1 /\ unitObj[u].faction = playerFactionKey
        /\ unitObj[u].unitType = "worker"

\* C10: when a training request is accepted, by the player or by the AI, the
\* food in use of the faction plus the foodCost of the unit does not exceed
\* the food capacity of the faction.
C10_FoodCheckedAtAcceptance ==
  [][/\ \A b \in Range(buildings) :
          Accepts(St, b) =>
            calculateCurrentFood(St, bldgObj[b].faction)
              + FoodCost(Trains(bldgObj[b].buildingType))
            <= calculateFoodCapacity(St, bldgObj[b].faction)
     /\ \A b \in 1..Len(bldgObj) :
          (~bldgObj[b].isTraining /\ bldgObj'[b].isTraining) =>
            calculateCurrentFood(St', bldgObj[b].faction)
              + FoodCost(bldgObj'[b].trainingUnitType)
            <= calculateFoodCapacity(St', bldgObj[b].faction)]_vars

\* a training has just been accepted that fills the food capacity
C10_Witness ==
  \E b \in Range(buildings) :
     /\ bldgObj[b].isTraining /\ bldgObj[b].trainingProgress = 0
     /\ calculateCurrentFood(St, bldgObj[b].faction)
          + FoodCost(bldgObj[b].trainingUnitType)
        = calculateFoodCapacity(St, bldgObj[b].faction)

\* the faction of building b cannot pay for a unit of the type
CannotAfford(s, b, type) ==
  \/ Stock(s, s.bldgObj[b].faction)[1] < UnitCost(type).wood
  \/ Stock(s, s.bldgObj[b].faction)[2] < UnitCost(type).coal

\* a unit of the type would take the faction of building b over its food
\* capacity
OverFood(s, b, type) ==
  calculateCurrentFood(s, s.bldgObj[b].faction) + FoodCost(type)
    > calculateFoodCapacity(s, s.bldgObj[b].faction)

Cancellations(s) ==
  {cancelPlacement(s), deselectAll(s),
   finalizePlacement(updatePlacementPreview(s, FALSE))}
  \cup {handleUnitClick(s, u) : u \in Range(s.units) \ {s.selectedUnit}}
  \cup {handleBuildingClick(s, b) : b \in Range(s.buildings)}
  \cup {dealDamage(s, UnitElem(s.selectedUnit), s.unitObj[s.selectedUnit].hp) :
          x \in IF s.selectedUnit # NoUnit THEN {1} ELSE {}}

\* the stockpile of the player in state s, with the cost of a building of
\* the type added
Refunded(s, type) ==
  <<s.p1Wood + BldgCost(type).wood, s.p1Coal + BldgCost(type).coal>>

\* C12: starting a placement deducts the cost of the building once, and its
\* cancellation, by explicit cancel, by deselection or by an attempt to
\* finalize at an invalid location, restores the wood and coal of the player
\* to exactly their values before the placement started.
C12_CancelRestoresStockpile ==
  /\ (/\ Playing(St) /\ placingBuildingType = "none"
      /\ selectedUnit # NoUnit
      /\ unitObj[selectedUnit].unitType = "worker"
      /\ unitObj[selectedUnit].faction = playerFactionKey) =>
       \A type \in BuildingTypes \ {"base"} :
          LET started == startPlacingBuilding(St, type)
          IN started # St =>
               /\ Refunded(started, type) = Stock(St, playerFactionKey)
               /\ \A c \in Cancellations(started) :
                     /\ c.placingBuildingType = "none"
                     /\ Stock(c, playerFactionKey) = Stock(St, playerFactionKey)
                     /\ Len(c.bldgObj) = Len(bldgObj)
  /\ placingBuildingType # "none" =>
       \A c \in Cancellations(St) :
          /\ c.placingBuildingType = "none"
          /\ Stock(c, playerFactionKey) = Refunded(St, placingBuildingType)
          /\ cancelPlacement(c) = c

\* a barracks is being placed: its cost is gone from the stockpile the game
\* starts with, and the box under the pointer is not free
C12_Witness ==
  /\ placingBuildingType = "barracks" /\ ~placementValid
  /\ selectedUnit # NoUnit
  /\ Refunded(St, "barracks") = <<INITIAL_WOOD, INITIAL_COAL>>

\* C13: for every construction site, progress starts at 0, never decreases,
\* and satisfies 0 <= progress <= buildTime in every state between two
\* handlers, for every tick length the clamp of the delta time allows.
C13_ProgressBounded ==
  [][/\ \A c \in Range(constructions) :
          /\ bldgObj[c].isConstructing
          /\ 0 <= bldgObj[c].progress
          /\ bldgObj[c].progress <= bldgObj[c].buildTime
          /\ bldgObj[c].buildTime = BldgBuildTime(bldgObj[c].buildingType)
     /\ \A c \in Range(constructions') :
          IF c \in Range(constructions)
          THEN bldgObj'[c].progress >= bldgObj[c].progress
          ELSE c > Len(bldgObj) /\ bldgObj'[c].progress = 0
     /\ \A c \in Range(constructions), deltaTime \in 1..MaxDelta :
          LET after == updateConstruction(St, c, deltaTime)
          IN c \in Range(after.constructions) =>
               /\ after.bldgObj[c].progress >= bldgObj[c].progress
               /\ after.bldgObj[c].progress <= bldgObj[c].buildTime]_vars

\* a site is one tick short of its build time and its worker is building:
\* a tick of the longest delta takes the progress past the build time
C13_Witness ==
  \E c \in Range(constructions) :
     /\ bldgObj[c].progress > 0
     /\ bldgObj[c].progress + MaxDelta > bldgObj[c].buildTime
     /\ bldgObj[c].assignedWorker # NoUnit
     /\ unitObj[bldgObj[c].assignedWorker].state = "building"

\* a tick of the length takes the progress of site c to its build time
Completes(s, c, deltaTime) ==
  /\ s.bldgObj[c].isConstructing /\ s.bldgObj[c].conn
  /\ advanceSite(s, c, deltaTime).bldgObj[c].progress >= s.bldgObj[c].buildTime

\* building n stands in state s for the site c that was completed
Replaces(s, n, c) ==
  /\ n \in Range(s.buildings)
  /\ ~s.bldgObj[n].isConstructing
  /\ s.bldgObj[n].id = s.bldgObj[c].id
  /\ s.bldgObj[n].buildingType = s.bldgObj[c].buildingType
  /\ s.bldgObj[n].faction = s.bldgObj[c].faction

NoDuplicates(seq) ==
  \A i, j \in 1..Len(seq) : i # j => seq[i] # seq[j]

\* each entry of units, buildings and constructions of state s occurs once,
\* no two entries of buildings share an identifier, and no entry is a
\* destroyed building
Registry(s) ==
  /\ NoDuplicates(s.units) /\ NoDuplicates(s.buildings)
  /\ NoDuplicates(s.constructions)
  /\ \A i, j \in 1..Len(s.buildings) :
        i # j => s.bldgObj[s.buildings[i]].id # s.bldgObj[s.buildings[j]].id
  /\ \A b \in Range(s.buildings) : s.bldgObj[b].hp > 0

\* C15: in every reachable state each unit, building and construction site
\* appears exactly once in its collection and no two entries of buildings
\* share an identifier, also after a site has been completed and replaced by
\* its building, and after that building has been destroyed: a game starts
\* with such a registry and every step keeps it so.
C15_RegistryHasNoDuplicates ==
  [][/\ \A mode \in GameModes : Registry(initializeAndStartGame(mode))
     /\ Registry(St) => Registry(St')]_vars

\* the sites of state s that name unit u as their assigned worker
SitesOf(s, u) ==
  {c \in Range(s.constructions) : s.bldgObj[c].assignedWorker = u}

\* unit u of state s holds the assignment of site c, walking or building
HoldsSite(s, u, c) ==
  /\ s.bldgObj[c].assignedWorker = u
  /\ s.unitObj[u].constructionId = s.bldgObj[c].id
  /\ s.unitObj[u].state \in {"moving_to_build", "building"}

\* C16: in every reachable state no worker is the assigned worker of two
\* sites, and when assignWorkerToConstruction gives a site that has an
\* assigned worker (walking to it or building it) to a second worker of the
\* faction, the site is the second worker's and the first worker is idle
\* with its construction assignment cleared.
C16_OneWorkerPerSite ==
  /\ \A u \in Range(units) : Cardinality(SitesOf(St, u)) <= 1
  /\ \A c \in Range(constructions) : \A u \in Range(units) :
        LET first == bldgObj[c].assignedWorker
            after == assignWorkerToConstruction(St, c, u, FALSE)
        IN (/\ first # NoUnit /\ first # u
            /\ HoldsSite(St, first, c)
            /\ unitObj[u].hp > 0
            /\ unitObj[u].unitType = "worker"
            /\ unitObj[u].faction = bldgObj[c].faction)
           => /\ after.bldgObj[c].assignedWorker = u
              /\ after.unitObj[first].state = "idle"
              /\ after.unitObj[first].constructionId = NoId

\* C17: whenever a step takes a worker that holds the assignment of a site
\* (walking to it or building it) to a state that is neither moving_to_build
\* nor building, the site, if it still stands, no longer names that worker as
\* its assigned worker.
C17_ReleaseOnInterrupt ==
  [][\A c \in Range(constructions) : \A u \in Range(units) :
        (/\ HoldsSite(St, u, c)
         /\ unitObj'[u].state \notin {"moving_to_build", "building"}
         /\ c \in Range(constructions'))
        => bldgObj'[c].assignedWorker # u]_vars

\* C18: in every reachable state, a hit by dealDamage that uses up the hit
\* points of a building under construction leaves the site in neither
\* buildings nor constructions, and leaves the worker that held its
\* assignment (walking to it or building it) idle with no construction
\* assignment.
C18_SiteDestroyed ==
  \A c \in Range(constructions) :
     LET after == dealDamage(St, BldgElem(c), bldgObj[c].hp)
     IN (bldgObj[c].isConstructing /\ bldgObj[c].hp > 0)
        => /\ after.bldgObj[c].hp = 0
           /\ c \notin Range(after.buildings)
           /\ c \notin Range(after.constructions)
           /\ \A u \in Range(units) :
                 HoldsSite(St, u, c)
                 => /\ after.unitObj[u].state = "idle"
                    /\ after.unitObj[u].constructionId = NoId

\* the orders a unit can be given, by their state
Orders ==
  {Command(state, TRUE, NoElem, NoId, "none") :
     state \in {"moving", "moving_to_resource", "moving_to_attack",
                "returning", "retreating"}}

\* unit u of state s is alive and harvesting node r, the callback pending
Harvests(s, u, r) ==
  /\ r # NoRes /\ s.unitObj[u].harvestTimer = r
  /\ s.unitObj[u].state = "harvesting" /\ s.unitObj[u].hp > 0

\* C19: an order to a harvesting unit cancels its pending harvest: the
\* order leaves no callback pending and the unit not harvesting, and the
\* callback, were it to run then, would change nothing; a callback is pending
\* only for a harvesting unit, whatever takes a unit out of harvesting leaves
\* none pending, and a node is harvested or a unit switched from harvesting
\* to returning only in a step in which that unit's callback was pending.
C19_CommandCancelsHarvest ==
  [][/\ \A u \in Range(units) : \A r \in 1..Len(resObj) :
           Harvests(St, u, r)
           => \A command \in Orders : \A ai \in BOOLEAN :
                 LET after == issueCommand(St, u, command, ai)
                 IN /\ after.unitObj[u].harvestTimer = NoRes
                    /\ after.unitObj[u].state = command.state
                    /\ after.taken = taken /\ after.resObj = resObj
                    /\ \A near \in NearOrders(after) :
                          handleHarvestComplete(after, u, r, near) = after
     /\ \A u \in 1..Len(unitObj) :
           /\ unitObj[u].harvestTimer # NoRes
              => unitObj[u].state = "harvesting"
           /\ (unitObj[u].state = "harvesting"
               /\ unitObj'[u].state # "harvesting")
              => unitObj'[u].harvestTimer = NoRes
           /\ (unitObj[u].state = "harvesting"
               /\ unitObj'[u].state = "returning")
              => unitObj[u].harvestTimer # NoRes
     /\ \A r \in 1..Len(resObj) :
           (taken'[r] # taken[r] \/ resObj'[r].health < resObj[r].health)
           => \E u \in 1..Len(unitObj) :
                 /\ unitObj[u].state = "harvesting"
                 /\ unitObj[u].harvestTimer = r]_vars

\* the player's selected worker is harvesting with the callback pending and
\* an order can still be given to it
C19_Witness ==
  /\ Playing(St) /\ inputs > 0 /\ selectedUnit # NoUnit
  /\ \E r \in 1..Len(resObj) : Harvests(St, selectedUnit, r)

\* the live workers of faction f that are idle in state s
IdleWorkers(s, f) ==
  {u \in Range(s.units) : /\ s.unitObj[u].faction = f
                          /\ s.unitObj[u].unitType = "worker"
                          /\ s.unitObj[u].hp > 0
                          /\ s.unitObj[u].state = "idle"}

\* faction f is played by the AI, the game is on, its base stands and is its
\* only building, it can pay for a farm and for a barracks, it has an idle
\* worker and a node with something left to harvest is on the map
LoneBase(s, f) ==
  /\ Playing(s) /\ ~s.gameOver /\ IsAIControlled(s, f)
  /\ HasBase(s, f)
  /\ \A b \in Range(s.buildings) :
        s.bldgObj[b].faction = f => s.bldgObj[b].isBase
  /\ \A ty \in {"farm", "barracks"} :
        (IF f = p1FactionKey THEN s.p1Wood ELSE s.p2Wood) >= BldgCost(ty).wood
  /\ IdleWorkers(s, f) # {}
  /\ \E r \in Range(s.resources) :
        s.resObj[r].conn /\ s.resObj[r].health > 0

\* C20: in every reachable state, a decision pass of an AI faction that has
\* only its base, wood for a farm and for a barracks, an idle worker and a
\* harvestable node on the map sends one of the idle workers to build or to
\* harvest, whatever the placement search and the distances are.
C20_PassOrdersIdleWorker ==
  \A f \in Factions :
     LoneBase(St, f)
     => \A free \in BOOLEAN : \A near \in NearOrders(St) :
           LET after == aiPass(St, f, free, near)
           IN \E w \in IdleWorkers(St, f) :
                 after.unitObj[w].state \in
                    {"moving_to_build", "moving_to_resource"}

\* C21: a call of updateSingleAI that the throttle holds back changes the
\* faction's throttle counter and nothing else, and a call that it lets
\* through resets the counter; from one frame to the next a counter stays,
\* grows by one, or falls back to 0 from AiInterval - 1, so that two decision
\* passes of a faction are at least AiInterval frames apart.
C21_PassesAreThrottled ==
  [][/\ \A f \in Factions : \A free \in BOOLEAN : \A near \in NearOrders(St) :
           LET after == updateSingleAI(St, f, free, near)
           IN IF factionAiUpdateCounters[f] + 1 < AiInterval \/ gameOver
              THEN after = [St EXCEPT !.factionAiUpdateCounters[f] = @ + 1]
              ELSE after.factionAiUpdateCounters[f] = 0
     /\ \A f \in Factions :
           /\ ~gameOver => factionAiUpdateCounters[f] \in 0..(AiInterval - 1)
           /\ \/ factionAiUpdateCounters'[f] = factionAiUpdateCounters[f]
              \/ factionAiUpdateCounters'[f] = factionAiUpdateCounters[f] + 1
              \/ /\ factionAiUpdateCounters'[f] = 0
                 /\ factionAiUpdateCounters[f] = AiInterval - 1
                 /\ lastTimestamp' > lastTimestamp]_vars

\* a decision pass of the AI faction has just run and has given an order
C21_Witness ==
  /\ Playing(St) /\ lastTimestamp > 0
  /\ factionAiUpdateCounters[p2FactionKey] = 0
  /\ \E u \in Range(units) :
        unitObj[u].faction = p2FactionKey /\ unitObj[u].ai_tasked

\* the faction that faction f plays against
Enemy(f) == IF f = p1FactionKey THEN p2FactionKey ELSE p1FactionKey

\* C22: in every reachable state, when the training of a soldier or an
\* archer of an AI faction completes in a building while the base of the
\* opposing faction stands, the unit created is moving to attack and its
\* target is that base, a building of the opposing faction.
C22_TrainedUnitAttacksEnemyBase ==
  \A b \in Range(buildings) :
     LET f == bldgObj[b].faction
         enemyBase == BaseOf(St, Enemy(f))
         after == completeAnyUnitTraining(St, b)
         newUnit == Len(after.unitObj)
     IN (/\ bldgObj[b].isTraining
         /\ bldgObj[b].trainingUnitType \in {"soldier", "archer"}
         /\ IsAIControlled(St, f)
         /\ enemyBase # NoBldg /\ bldgObj[enemyBase].hp > 0)
        => /\ newUnit = Len(unitObj) + 1
           /\ after.unitObj[newUnit].state = "moving_to_attack"
           /\ after.unitObj[newUnit].targetElement = BldgElem(enemyBase)
           /\ bldgObj[after.unitObj[newUnit].targetElement.r].faction # f

\* C23: a hit by dealDamage that leaves a worker of either faction alive
\* with less than half of its hit points, while it is not retreating and its
\* faction's base stands, leaves it retreating; only workers are ever
\* retreating, and a unit enters retreating only in a step that takes hit
\* points from it.
C23_HurtWorkerRetreats ==
  [][/\ \A u \in Range(units) : \A damage \in Damages :
           LET unit == unitObj[u]
               base == BaseOf(St, unit.faction)
               after == dealDamage(St, UnitElem(u), damage)
           IN (/\ unit.unitType = "worker"
               /\ unit.hp - damage > 0
               /\ 2 * (unit.hp - damage) < unit.maxHp
               /\ unit.state # "retreating"
               /\ base # NoBldg /\ bldgObj[base].hp > 0)
              => /\ after.unitObj[u].state = "retreating"
                 /\ after.unitObj[u].hasTarget
     /\ \A u \in 1..Len(unitObj) :
           /\ unitObj[u].state = "retreating"
              => unitObj[u].unitType = "worker"
           /\ (unitObj[u].state # "retreating"
               /\ unitObj'[u].state = "retreating")
              => unitObj'[u].hp < unitObj[u].hp]_vars

\* the entries of buildings of state s that are flagged as the base of f
BaseEntries(s, f) ==
  {i \in 1..Len(s.buildings) : /\ s.bldgObj[s.buildings[i]].isBase
                               /\ s.bldgObj[s.buildings[i]].faction = f}

\* the building types a worker's menu, the hotkeys and the AI ask for
SiteTypes == BuildingTypes \ {"base"}

\* C24: a game starts with one flagged base per faction, the two buildings
\* created first; in every reachable state a faction has at most one entry of
\* buildings flagged as base, exactly one while its base has hit points left,
\* the only flagged buildings are those two, and no step and no site that is
\* started and completed flags another building or moves the base
\* references.
C24_OneBasePerFaction ==
  [][/\ \A mode \in GameModes : \A f \in Factions :
           LET s0 == initializeAndStartGame(mode)
           IN /\ Cardinality(BaseEntries(s0, f)) = 1
              /\ s0.playerBaseData = 1 /\ s0.opponentBaseData = 2
     /\ \A f \in Factions :
           /\ Cardinality(BaseEntries(St, f)) <= 1
           /\ bldgObj[BaseOf(St, f)].hp > 0
              => Cardinality(BaseEntries(St, f)) = 1
     /\ \A b \in 1..Len(bldgObj) : bldgObj[b].isBase => b \in {1, 2}
     /\ \A b \in 1..Len(bldgObj') : bldgObj'[b].isBase => b \in {1, 2}
     /\ playerBaseData' = playerBaseData
     /\ opponentBaseData' = opponentBaseData
     /\ \A type \in SiteTypes : \A f \in Factions :
           LET s1 == createConstructionSite(St, type, f, NoUnit)
               s2 == completeConstruction(s1, Len(s1.bldgObj))
           IN /\ \A b \in 1..Len(s2.bldgObj) :
                    s2.bldgObj[b].isBase => b \in {1, 2}
              /\ s2.playerBaseData = playerBaseData
              /\ s2.opponentBaseData = opponentBaseData]_vars

\* a site has been completed and a base has been destroyed
C24_Witness ==
  /\ \E b \in Range(buildings) :
        ~bldgObj[b].isConstructing /\ bldgObj[b].id.p = "cons"
  /\ \E f \in Factions : bldgObj[BaseOf(St, f)].hp = 0
                         /\ BaseEntries(St, f) = {}

\* a type that is in no faction's static table
UnknownTypes == {"catapult"}

\* C25: in every reachable state createUnit, createBuilding and
\* createConstructionSite, called with a type that is in no static table,
\* leave the whole game state as it was: the collections, the stockpiles and
\* the identifier counters.
C25_UnknownTypeChangesNothing ==
  \A type \in UnknownTypes : \A f \in Factions :
     /\ createUnit(St, type, f) = St
     /\ \A isBase, isConstructed \in BOOLEAN :
           createBuilding(St, type, f, isBase, isConstructed) = St
     /\ \A byWorker \in Range(units) \cup {NoUnit} :
           createConstructionSite(St, type, f, byWorker) = St

\* C26: in every reachable state in which a worker of the player is
\* selected and can be given orders, a right click on a tree, or on a mine
\* with charge left, offers Harvest without an error, and the order the
\* button gives leaves the worker moving to that node.
C26_HarvestOfferedOnEveryNode ==
  \A r \in Range(resources) :
     (/\ Commandable(St)
      /\ unitObj[selectedUnit].unitType = "worker"
      /\ resObj[r].conn
      /\ resObj[r].type = "mine" => resObj[r].health > 0)
     => /\ resourceMenu(St, r) = "harvest"
        /\ LET after == harvestOrder(St, r)
           IN /\ after.unitObj[selectedUnit].state = "moving_to_resource"
              /\ after.unitObj[selectedUnit].targetElement = ResElem(r)

\* site c of state s has a builder at work: its assigned worker is alive,
\* in units, in state building, and its construction reference is the site
BuiltBy(s, c) ==
  LET w == s.bldgObj[c].assignedWorker
  IN /\ w # NoUnit /\ w \in Range(s.units) /\ s.unitObj[w].hp > 0
     /\ s.unitObj[w].state = "building"
     /\ s.unitObj[w].constructionId = s.bldgObj[c].id

\* the frame's update of site c for deltaTime leaves it as it is in state s
Untouched(s, c, deltaTime) ==
  LET after == updateConstruction(s, c, deltaTime)
  IN /\ after.bldgObj[c].progress = s.bldgObj[c].progress
     /\ after.bldgObj[c].hp = s.bldgObj[c].hp
     /\ c \in Range(after.constructions)

\* C27: in every reachable state the frame's update of a construction site
\* changes its progress or hit points, or completes it, only if the site
\* has a builder at work; a site whose builder is then killed, or is ordered
\* to move away, is left untouched by the update.
C27_OnlyLiveBuilderAdvances ==
  \A c \in Range(constructions) : \A deltaTime \in 1..MaxDelta :
     /\ ~BuiltBy(St, c) => Untouched(St, c, deltaTime)
     /\ BuiltBy(St, c)
        => LET w == bldgObj[c].assignedWorker
               killed == dealDamage(St, UnitElem(w), unitObj[w].hp)
               ordered == issueCommand(St, w,
                            Command("moving", TRUE, NoElem, NoId, "none"),
                            FALSE)
           IN /\ Untouched(ordered, c, deltaTime)
              /\ Untouched(killed, c, deltaTime)

\* unit u of state s struck its target in the latest frame and is still
\* attacking it
JustStruck(s, u) ==
  /\ s.unitObj[u].hp > 0 /\ AttackDamage(s.unitObj[u].unitType) > 0
  /\ s.unitObj[u].state = "attacking"
  /\ s.lastTimestamp > 0 /\ s.unitObj[u].lastAttackTime = s.lastTimestamp
  /\ LiveTarget(s, s.unitObj[u].targetElement) = s.unitObj[u].targetElement
  /\ s.unitObj[u].targetElement # NoElem
  /\ FactionOf(s, s.unitObj[u].targetElement) # s.unitObj[u].faction

\* unit u strikes in the frame at timestamp that follows state s, in which
\* the units of arr arrive
StrikesAt(s, u, timestamp, arr) ==
  \E near \in NearOrders(s) :
     LET after == gameLoop(s, timestamp, arr, {}, near, FALSE, NoUnit)
     IN after.unitObj[u].lastAttackTime = timestamp

\* C28: in every reachable state, a unit that struck in the latest frame
\* does not strike again in a frame that comes less than its attackSpeed
\* later, neither when it stays on its target nor when it is ordered to
\* attack that target anew in between and arrives at it in that frame.
C28_CooldownBetweenStrikes ==
  \A u \in Range(units) : \A gap \in 1..MaxGap :
     (/\ Playing(St) /\ JustStruck(St, u)
      /\ gap < AttackSpeed(unitObj[u].unitType))
     => /\ ~StrikesAt(St, u, lastTimestamp + gap, {})
        /\ ~StrikesAt(issueCommand(St, u,
                        Command("moving_to_attack", TRUE,
                                unitObj[u].targetElement, NoId, "none"),
                        FALSE),
                      u, lastTimestamp + gap, {u})

\* what the buildings of faction f that stand completed in state s provide,
\* each building counted once
ProvidedFood(s, f) ==
  LET first == {i \in 1..Len(s.buildings) :
                  \A j \in 1..(i - 1) : s.buildings[j] # s.buildings[i]}
      seq == [i \in 1..Len(s.buildings) |->
                LET b == s.bldgObj[s.buildings[i]]
                IN IF /\ i \in first /\ b.faction = f
                      /\ ~b.isConstructing /\ b.hp > 0
                   THEN ProvidesFood(b.buildingType) ELSE 0]
  IN SumSeq(seq, LAMBDA x : x)

\* the capacity of each faction is what its buildings provide, and at least
\* STARTING_FOOD_CAP
CapacityMatches(s) ==
  \A f \in Factions :
     calculateFoodCapacity(s, f) = Max(STARTING_FOOD_CAP, ProvidedFood(s, f))

\* C29: the food capacity of a faction is max(STARTING_FOOD_CAP, the sum of
\* provides_food over its distinct completed, undestroyed buildings): a game
\* starts so, and from every reachable state in which it is so, the
\* completion of a site raises the sum by exactly what the building
\* provides and the destruction of a completed building lowers it by exactly
\* that.
C29_CapacityCountsEachBuildingOnce ==
  /\ \A mode \in GameModes : CapacityMatches(initializeAndStartGame(mode))
  /\ CapacityMatches(St)
     => /\ \A c \in Range(constructions) :
              LET f == bldgObj[c].faction
                  after == completeConstruction(St, c)
              IN calculateFoodCapacity(after, f)
                   = Max(STARTING_FOOD_CAP,
                         ProvidedFood(St, f)
                           + ProvidesFood(bldgObj[c].buildingType))
        /\ \A b \in Range(buildings) :
              LET f == bldgObj[b].faction
                  after == dealDamage(St, BldgElem(b), bldgObj[b].hp)
              IN (~bldgObj[b].isConstructing /\ bldgObj[b].hp > 0)
                 => calculateFoodCapacity(after, f)
                      = Max(STARTING_FOOD_CAP,
                            ProvidedFood(St, f)
                              - ProvidesFood(bldgObj[b].buildingType))

\* no building of faction f has been destroyed in state s
NoneDestroyed(s, f) ==
  \A b \in 1..Len(s.bldgObj) : s.bldgObj[b].faction = f => s.bldgObj[b].hp > 0

\* the food faction f has in use in state s is within its capacity
Fed(s, f) == calculateCurrentFood(s, f) <= calculateFoodCapacity(s, f)

\* C30: in every reachable state of a running game in which no building of
\* a faction has been destroyed, the faction's food in use is within its capacity, and it is
\* still so after two of its buildings have each been asked to train a unit
\* and both trainings have completed.
C30_FoodWithinCapacity ==
  \A f \in Factions :
     (Playing(St) /\ NoneDestroyed(St, f))
     => /\ Fed(St, f)
        /\ \A b1, b2 \in Range(buildings) : \A t1, t2 \in UnitTypes :
              (/\ b1 # b2
               /\ bldgObj[b1].faction = f /\ bldgObj[b2].faction = f
               /\ ~bldgObj[b1].isTraining /\ ~bldgObj[b2].isTraining)
              => Fed(completeAnyUnitTraining(
                       completeAnyUnitTraining(
                         trainUnit(trainUnit(St, t1, b1), t2, b2), b1), b2),
                     f)

\* building b is training in this state and goes on with the same training
\* through a simulated frame
TrainsThrough(b) ==
  /\ lastTimestamp' # lastTimestamp
  /\ b \in Range(buildings) /\ bldgObj[b].hp > 0
  /\ ~bldgObj[b].isConstructing /\ bldgObj[b].isTraining
  /\ bldgObj'[b].isTraining
  /\ bldgObj'[b].trainingProgress > bldgObj[b].trainingProgress

\* building b is training in this state and the frame spawns its unit
SpawnsIn(b) ==
  /\ lastTimestamp' # lastTimestamp
  /\ b \in Range(buildings) /\ bldgObj[b].hp > 0
  /\ ~bldgObj[b].isConstructing /\ bldgObj[b].isTraining
  /\ bldgObj[b].trainingTotalTime > 0
  /\ Len(unitObj') > Len(unitObj)
  /\ \/ ~bldgObj'[b].isTraining
     \/ bldgObj'[b].trainingProgress < bldgObj[b].trainingProgress

\* C31: in a simulated frame the progress of a training building, the
\* initial base or a building that a completed construction produced, grows
\* by exactly the frame's clamped elapsed time, and its unit is spawned only
\* in a frame in which the progress so grown has reached the training time.
C31_TrainingGrowsOncePerTick ==
  [][\A b \in 1..Len(bldgObj) :
        /\ TrainsThrough(b)
           => bldgObj'[b].trainingProgress
                = bldgObj[b].trainingProgress + frameDelta(St, lastTimestamp')
        /\ SpawnsIn(b)
           => bldgObj[b].trainingProgress + frameDelta(St, lastTimestamp')
                >= bldgObj[b].trainingTotalTime]_vars

\* site c of state s still stands and is assigned to unit u, which is
\* assigned to it
AssignedTo(s, u, c) ==
  /\ c \in Range(s.constructions) /\ s.bldgObj[c].isConstructing
  /\ s.bldgObj[c].assignedWorker = u
  /\ s.unitObj[u].constructionId = s.bldgObj[c].id

\* the units of the registry that are walking to a site
Walkers(s) ==
  {u \in Range(s.units) :
     s.unitObj[u].hp > 0 /\ s.unitObj[u].state = "moving_to_build"}

\* C32: in every reachable state, a unit that arrives in moving_to_build
\* enters building if the site it was sent to still stands and is still
\* assigned to it, and otherwise is idle with its construction assignment
\* cleared, also when the site was destroyed or given to another worker
\* while it walked; and every unit of the registry in state building is the
\* assigned worker of a standing construction site.
C32_BuildsOnlyAssignedSite ==
  /\ \A u \in Walkers(St) : \A near \in NearOrders(St) :
        LET after == arrive(St, u, near)
        IN IF \E c \in Range(constructions) :
                 AssignedTo(St, u, c) /\ unitObj[u].targetElement = BldgElem(c)
           THEN after.unitObj[u].state = "building"
           ELSE /\ after.unitObj[u].state = "idle"
                /\ after.unitObj[u].constructionId = NoId
  /\ \A u \in Walkers(St) : \A c \in Range(constructions) :
        AssignedTo(St, u, c)
        => /\ LET gone == dealDamage(St, BldgElem(c), bldgObj[c].hp)
                  after == arrive(gone, u, [i \in 1..Len(resObj) |-> i])
              IN gone.unitObj[u].state = "moving_to_build"
                 => /\ after.unitObj[u].state = "idle"
                    /\ after.unitObj[u].constructionId = NoId
           /\ \A v \in Range(units) \ {u} :
                 LET given == assignWorkerToConstruction(St, c, v, FALSE)
                     after == arrive(given, u, [i \in 1..Len(resObj) |-> i])
                 IN (/\ unitObj[v].hp > 0 /\ unitObj[v].unitType = "worker"
                     /\ unitObj[v].faction = unitObj[u].faction)
                    => /\ after.unitObj[u].state = "idle"
                       /\ after.unitObj[u].constructionId = NoId
                       /\ after.bldgObj[c].assignedWorker = v
  /\ \A u \in Range(units) :
        unitObj[u].state = "building"
        => \E c \in Range(constructions) : AssignedTo(St, u, c)

\* a worker has arrived at its site and is building it, and another is on
\* its way to a site
C32_Witness ==
  /\ \E u \in Range(units) : \E c \in Range(constructions) :
        /\ unitObj[u].state = "building" /\ AssignedTo(St, u, c)
        /\ bldgObj[c].progress > 0
  /\ Walkers(St) # {}

\* node r of state s is in the registry and not used up
Harvestable(s, r) ==
  /\ r \in Range(s.resources) /\ s.resObj[r].conn
  /\ ~(s.resObj[r].type = "mine" /\ s.resObj[r].health <= 0)

\* the units of the registry that are walking to a node
Gatherers(s) ==
  {u \in Range(s.units) :
     /\ s.unitObj[u].hp > 0 /\ s.unitObj[u].state = "moving_to_resource"
     /\ s.unitObj[u].targetElement.k = "res"}

\* unit u of state s arrives at its node: it harvests the node if that is
\* harvestable, and is otherwise sent to the nearest harvestable node of the
\* same kind, or idle if there is none
ArrivesWell(s, u, near) ==
  LET r == s.unitObj[u].targetElement.r
      next == findNearestResource(s, u, s.resObj[r].type, near)
      after == arrive(s, u, near)
  IN IF Harvestable(s, r)
     THEN /\ after.unitObj[u].state = "harvesting"
          /\ after.unitObj[u].harvestTimer = r
     ELSE IF next # NoRes
     THEN /\ after.unitObj[u].state = "moving_to_resource"
          /\ after.unitObj[u].targetElement = ResElem(next)
          /\ Harvestable(s, next)
          /\ after.unitObj[u].harvestTimer = NoRes
     ELSE /\ after.unitObj[u].state = "idle"
          /\ after.unitObj[u].harvestTimer = NoRes

\* every unit of the registry that is harvesting has a completion pending
\* for a node of the registry
HarvestsPending(s) ==
  \A u \in Range(s.units) :
     s.unitObj[u].state = "harvesting"
     => /\ s.unitObj[u].harvestTimer # NoRes
        /\ s.unitObj[u].harvestTimer \in Range(s.resources)

\* C33: in every reachable state, a unit that arrives in moving_to_resource
\* enters harvesting with a completion pending for its node if the node is
\* in the registry and not used up, and is otherwise sent to the nearest
\* harvestable node of the same kind or left idle if there is none; and
\* every harvesting unit has a completion pending for a node of the
\* registry.
C33_HarvestingHasPendingNode ==
  /\ \A u \in Gatherers(St) : \A near \in NearOrders(St) :
        ArrivesWell(St, u, near)
  /\ HarvestsPending(St)

\* the units of the registry that can attack
Fighters(s) ==
  {u \in Range(s.units) :
     s.unitObj[u].hp > 0 /\ AttackDamage(s.unitObj[u].unitType) > 0}

\* the elements of the units and buildings of the registry
Elements(s) ==
  {UnitElem(u) : u \in Range(s.units)}
  \cup {BldgElem(b) : b \in {x \in Range(s.buildings) : s.bldgObj[x].hasElement}}

\* the hit points of every unit and building of state s
Hits(s) ==
  <<[i \in 1..Len(s.unitObj) |-> s.unitObj[i].hp],
    [i \in 1..Len(s.bldgObj) |-> s.bldgObj[i].hp]>>

\* unit u of state s is after a target that is dead, gone from the arrays
\* or of its own faction
BadTarget(s, u) ==
  LET unit == s.unitObj[u]
  IN /\ unit.state \in {"moving_to_attack", "attacking"}
     /\ unit.targetElement # NoElem
     /\ \/ HpOf(s, unit.targetElement) <= 0
        \/ unit.targetElement.k = "unit"
           /\ unit.targetElement.r \notin Range(s.units)
        \/ unit.targetElement.k = "bldg"
           /\ unit.targetElement.r \notin Range(s.buildings)
        \/ FactionOf(s, unit.targetElement) = unit.faction

\* the update of unit u in state s leaves it idle and hurts nobody,
\* whatever the geometry of the frame
RevertsToIdle(s, u) ==
  \A arr \in SUBSET {u}, far \in SUBSET {u} :
     LET after == updateUnit(s, u, s.lastTimestamp + 1, arr, far,
                             [i \in 1..Len(s.resObj) |-> i])
     IN after.unitObj[u].state = "idle" /\ Hits(after) = Hits(s)

\* the state in which unit u, ordered to attack e, has come within range
InRange(s, u, e) ==
  moveUnit(issueCommand(s, u, Command("moving_to_attack", TRUE, e, NoId,
                                      "none"), FALSE),
           u, {u}, [i \in 1..Len(s.resObj) |-> i])

\* state s, or s after unit u has been ordered to attack e, or after it has
\* come within range of e
Engaged(s, u, e) ==
  {s, issueCommand(s, u, Command("moving_to_attack", TRUE, e, NoId, "none"),
                   FALSE),
   InRange(s, u, e)}

MaxWait == 2

\* the loops after n animation frames from l, one time unit apart
RECURSIVE Wait(_, _)
Wait(l, n) ==
  IF n = 0 THEN l ELSE Wait(animationFrame(l, l.st.lastTimestamp + 1), n - 1)

\* at most one callback is pending in l, and an animation frame runs at
\* most one tick of the simulation and of the AI counter
OneChain(l) ==
  /\ l.chains <= 1
  /\ animationFrame(l, l.st.lastTimestamp + 1).st.aiGlobalUpdateCounter
       <= l.st.aiGlobalUpdateCounter + 1

\* C35: from every reachable state, with the main menu opened and closed,
\* the game restarted from the menu, or played again after game over, and
\* any number of frames up to MaxWait between the clicks, at most one
\* gameLoop callback is pending and a frame advances the simulation and the
\* AI counter by at most one tick.
C35_OneLoopChain ==
  /\ OneChain(Loops(St))
  /\ OneChain(Loops(hideMainMenu(showMainMenu(St))))
  /\ \A n \in 0..MaxWait : \A mode \in GameModes :
        /\ (currentGameState = "main_menu" /\ gameInitialized /\ ~gameOver)
           => /\ OneChain(Wait(Loops(hideMainMenu(St)), n))
              /\ OneChain(Wait(Loops(restartGame(St)), n))
              /\ OneChain(startGameWithOptions(
                            Wait(Loops(restartGame(St)), n), mode))
        /\ (gameOver /\ winner # "none")
           => /\ OneChain(Wait(Loops(playAgain(St)), n))
              /\ OneChain(startGameWithOptions(
                            Wait(Loops(playAgain(St)), n), mode))

\* the workers of the registry that are harvesting, with a completion pending
Harvesters(s) ==
  {u \in Range(s.units) :
     /\ s.unitObj[u].hp > 0 /\ s.unitObj[u].state = "harvesting"
     /\ s.unitObj[u].harvestTimer # NoRes}

\* the nodes of state s: the registry, and what is left of each node
Nodes(s) == <<s.resources, s.resObj, s.depleting>>

\* C36: in every reachable state, the completion of a harvest consumes the
\* node only if it leaves a living worker carrying what the node gave, and
\* the completion that fires for a worker that was killed while harvesting
\* leaves the registry of nodes, every tree and every mine charge as they
\* were.
C36_DeadWorkerHarvestsNothing ==
  \A u \in Harvesters(St) : \A near \in NearOrders(St) :
     LET r == unitObj[u].harvestTimer
         done == handleHarvestComplete(St, u, r, near)
         killed == dealDamage(St, UnitElem(u), unitObj[u].hp)
         late == handleHarvestComplete(killed, u, r, near)
     IN /\ Nodes(done) # Nodes(St)
           => /\ done.unitObj[u].hp > 0 /\ u \in Range(done.units)
              /\ done.unitObj[u].resourceType = ClassOf(resObj[r].type)
        /\ killed.unitObj[u].hp = 0 /\ u \notin Range(killed.units)
        /\ Nodes(late) = Nodes(killed)

\* the costs of what can be trained or built
Costs ==
  {UnitCost(t) : t \in UnitTypes} \cup {BldgCost(t) : t \in SiteTypes}

\* stockpiles at and just below each cost
LowStocks ==
  {p \in {<<c.wood - dw, c.coal - dc>> : c \in Costs, dw \in 0..1, dc \in 0..1} :
     p[1] >= 0 /\ p[2] >= 0}

\* state s with the stockpile p in the hands of both factions
Poor(s, p) ==
  [s EXCEPT !.p1Wood = p[1], !.p1Coal = p[2], !.p2Wood = p[1], !.p2Coal = p[2]]

\* no stockpile of state s is negative
Solvent(s) ==
  /\ s.p1Wood >= 0 /\ s.p1Coal >= 0 /\ s.p2Wood >= 0 /\ s.p2Coal >= 0

\* from state s to state after, faction f has paid nothing, or has paid the
\* cost of one item that it could afford in s
PaidChecked(s, after, f) ==
  \/ Stock(after, f) = Stock(s, f)
  \/ \E c \in Costs :
        /\ Stock(s, f)[1] >= c.wood /\ Stock(s, f)[2] >= c.coal
        /\ Stock(after, f) = <<Stock(s, f)[1] - c.wood, Stock(s, f)[2] - c.coal>>

\* what a spending path can make of state s: a training request, the start
\* of a placement by the player, a decision pass of the AI of a faction
Spendings(s) ==
  {trainUnit(s, t, b) : t \in UnitTypes, b \in Range(s.buildings)}
  \cup {startPlacingBuilding(s, t) : t \in SiteTypes}
  \cup {aiPass(s, f, free, [i \in 1..Len(s.resObj) |-> i]) :
          f \in Factions, free \in BOOLEAN}

\* C37: no stockpile is negative in a reachable state, and in every
\* reachable state, with the stockpiles as they are or at or just below
\* the cost of an item, a training request, the start of a placement and an
\* AI decision pass each deduct nothing or the cost of one item that the
\* faction could afford, and leave no stockpile negative.
C37_StockpilesNonNegative ==
  /\ Solvent(St)
  /\ \A s \in {St} \cup {Poor(St, p) : p \in LowStocks} :
        \A after \in Spendings(s) :
           /\ Solvent(after)
           /\ \A f \in Factions : PaidChecked(s, after, f)

\* both factions have spent, a site of the AI stands, and the AI pass that
\* spends with the stockpile as it is or exactly at the cost spends nothing
\* with a stockpile just below
C37_Witness ==
  /\ p1Wood < INITIAL_WOOD /\ p2Wood < INITIAL_WOOD
  /\ \E c \in Range(constructions) : bldgObj[c].faction = p2FactionKey
  /\ \E p, q \in LowStocks : \E free \in BOOLEAN :
        LET near == [i \in 1..Len(resObj) |-> i]
        IN /\ Stock(aiPass(St, p2FactionKey, free, near), p2FactionKey)
                # Stock(St, p2FactionKey)
           /\ Stock(aiPass(Poor(St, p), p2FactionKey, free, near),
                    p2FactionKey) # p
           /\ q = <<p[1] - 1, p[2]>>
           /\ Stock(aiPass(Poor(St, q), p2FactionKey, free, near),
                    p2FactionKey) = q

\* the factions whose units the AI commands in state s
AiFactions(s) == {f \in Factions : IsAIControlled(s, f)}

\* unit u of state s is a living unit of faction f that stands idle, a
\* worker with no construction assignment
Available(s, u, f) ==
  /\ u \in Range(s.units) /\ s.unitObj[u].hp > 0
  /\ s.unitObj[u].faction = f /\ s.unitObj[u].state = "idle"
  /\ s.unitObj[u].unitType = "worker" => s.unitObj[u].constructionId = NoId

\* C38: in every reachable state, a decision pass of the AI of a faction
\* changes no unit but units of that faction that were idle (workers with
\* no construction assignment), creates no unit, and adds at most one
\* construction site.
C38_PassOrdersOnlyIdleUnits ==
  \A f \in AiFactions(St) : \A free \in BOOLEAN : \A near \in NearOrders(St) :
     LET after == aiPass(St, f, free, near)
     IN /\ Len(after.unitObj) = Len(unitObj) /\ after.units = units
        /\ \A u \in 1..Len(unitObj) :
              after.unitObj[u] # unitObj[u] => Available(St, u, f)
        /\ Len(after.constructions) <= Len(constructions) + 1
        /\ \A i \in 1..Len(constructions) :
              after.constructions[i] = constructions[i]
        /\ \A c \in Range(constructions) :
              after.bldgObj[c].assignedWorker = bldgObj[c].assignedWorker

\* a reachable state in which a pass starts a construction with an idle
\* worker while another unit of the faction is busy and is left alone
C38_Witness ==
  \E f \in AiFactions(St) : \E near \in NearOrders(St) :
     LET after == aiPass(St, f, TRUE, near)
     IN /\ Len(after.constructions) = Len(constructions) + 1
        /\ \E u \in Range(units) :
              /\ Available(St, u, f)
              /\ after.unitObj[u].state = "moving_to_build"
        /\ \E w \in Range(units) :
              /\ unitObj[w].faction = f /\ unitObj[w].hp > 0
              /\ unitObj[w].state \in {"harvesting", "returning", "building",
                                       "moving_to_resource", "attacking",
                                       "moving_to_attack"}
              /\ after.unitObj[w] = unitObj[w]

\* site c of state s stands and waits to be built
OpenSite(s, c) ==
  /\ c \in Range(s.constructions)
  /\ s.bldgObj[c].isConstructing /\ s.bldgObj[c].conn /\ s.bldgObj[c].hp > 0

\* unit u of state s is a living worker of the faction of site c that is not
\* building the site
SpareWorker(s, u, c) ==
  /\ u \in Range(s.units) /\ s.unitObj[u].hp > 0
  /\ s.unitObj[u].unitType = "worker"
  /\ s.unitObj[u].faction = s.bldgObj[c].faction
  /\ ~(/\ s.unitObj[u].state = "building"
       /\ s.unitObj[u].constructionId = s.bldgObj[c].id)

\* ticks of the loop over constructions, each of the default length, until
\* site c is no longer a construction site, at most n of them
RECURSIVE BuiltWithin(_, _, _)
BuiltWithin(s, c, n) ==
  IF c \notin Range(s.constructions) THEN TRUE
  ELSE IF n = 0 THEN FALSE
  ELSE BuiltWithin(constructionsPass(s, DefaultDelta), c, n - 1)

\* in state s worker u walks to site c, and once it has arrived the ticks
\* complete the site
WalksAndBuilds(s, u, c) ==
  /\ s.unitObj[u].state = "moving_to_build"
  /\ s.unitObj[u].targetElement = BldgElem(c)
  /\ BuiltWithin(arrive(s, u, [i \in 1..Len(s.resObj) |-> i]), c, BuildTime)

\* C39: in every reachable state, for every standing construction site and
\* every living worker of its faction that is not building it, assigning the
\* worker to the site makes it the assigned worker of the site and sends it
\* to the site, and after its arrival the ticks complete the site.
C39_SiteCanBeBuilt ==
  \A c \in Range(constructions) : \A u \in Range(units) :
     (OpenSite(St, c) /\ SpareWorker(St, u, c))
     => LET after == assignWorkerToConstruction(St, c, u, FALSE)
        IN /\ after.bldgObj[c].assignedWorker = u
           /\ WalksAndBuilds(after, u, c)

\* the same for a worker that the site does not name already
C39_FreshWorker ==
  \A c \in Range(constructions) : \A u \in Range(units) :
     (OpenSite(St, c) /\ SpareWorker(St, u, c)
        /\ bldgObj[c].assignedWorker # u)
     => LET after == assignWorkerToConstruction(St, c, u, FALSE)
        IN /\ after.bldgObj[c].assignedWorker = u
           /\ WalksAndBuilds(after, u, c)

\* a site names a worker that neither walks to it nor builds it
C39_Stale ==
  \E c \in Range(constructions) : \E u \in Range(units) :
     /\ OpenSite(St, c) /\ SpareWorker(St, u, c)
     /\ bldgObj[c].assignedWorker = u
     /\ unitObj[u].state # "moving_to_build"

\* the gameplay state: the entity collections, the resource nodes, the
\* units with their states and loads, the buildings and the stockpiles
Gameplay(s) ==
  <<s.units, s.buildings, s.constructions, s.resources, s.resObj, s.unitObj,
    s.bldgObj, s.p1Wood, s.p1Coal, s.p2Wood, s.p2Coal>>

\* the main menu is open during a match
Paused(s) ==
  s.currentGameState = "main_menu" /\ s.gameInitialized /\ ~s.gameOver

\* a harvest or a mine removal is waiting for its timeout in state s
TimerPending(s) ==
  \/ \E u \in 1..Len(s.unitObj) : s.unitObj[u].harvestTimer # NoRes
  \/ s.depleting # {}

\* C40: no step taken while the main menu stays open during a match changes
\* the collections, the resource nodes, the units, the buildings or the
\* stockpiles, pending harvest timers included.
C40_PausedGameplayFrozen ==
  [][(Paused(St) /\ currentGameState' = "main_menu")
       => Gameplay(St)' = Gameplay(St)]_vars

\* the same for the steps taken while no timeout is waiting
C40_PausedFramesFrozen ==
  [][(Paused(St) /\ ~TimerPending(St) /\ currentGameState' = "main_menu")
       => Gameplay(St)' = Gameplay(St)]_vars

\* the main menu is open while a worker's harvest timer is pending
C40_PausedWithTimer == Paused(St) /\ TimerPending(St)

====
